---- MODULE Spec2Model ----
(***************************************************************************)
(* Authentication and session lifecycle of the dashboard backend:          *)
(* users/models.py (User lockout fields, BlacklistedToken, AuthLog) and    *)
(* users/application/auth_service.py (LoginUseCase.login / logout /        *)
(* refresh_access_token).  Time is counted in minutes.                     *)
(***************************************************************************)
EXTENDS Integers, Sequences, FiniteSets, TLC

(* ------------------------------ bounds -------------------------------- *)

\* The clock stops advancing at MaxTime.
MaxTime == 15
\* The clock is observed every ClockStep minutes: with a step of one lock
\* duration a lock set at t is seen at t (in force) and at its expiry.
ClockStep == 15
\* No operation that appends an audit record runs once the log holds MaxLog.
MaxLog == 6
\* At most MaxStray login attempts name an account that cannot log in at all
\* (no such user, or an inactive one).
MaxStray == 1
\* No login mints a refresh token once MaxTokens were minted.
MaxTokens == 2
\* The audit logs that are retrieved hold at most MaxTrail records, created
\* at the minutes 0..MaxTrailTime.
MaxTrail == 3
MaxTrailTime == 2
\* Lifetime of a refresh token in minutes (a deployment setting the source
\* does not fix).
RefreshLifetime == 15
\* Each worker serves at most MaxServed requests.
MaxServed == 2

(* ------------------------- program constants -------------------------- *)

\* models.py:148  if self.failed_login_attempts >= 5
LOCK_THRESHOLD == 5
\* models.py:149  timedelta(minutes=15)
LOCK_MINUTES == 15
\* auth_service.py:15  BR-008: 60-minute token lifetime
ACCESS_TOKEN_MINUTES == 60

\* serializers.py:29-30, 36-37  min_length / max_length of LoginSerializer
USERNAME_MIN_LENGTH == 3
USERNAME_MAX_LENGTH == 30
PASSWORD_MIN_LENGTH == 8
PASSWORD_MAX_LENGTH == 128

\* AuthErrorCodes, auth_service.py:33-40
INVALID_CREDENTIALS == "AUTH-001"
INACTIVE_ACCOUNT == "AUTH-002"
ACCOUNT_LOCKED == "AUTH-003"
LOGOUT_FAILED == "AUTH-004"
TOKEN_REVOKED == "AUTH-005"
TOKEN_REFRESH_FAILED == "AUTH-006"

(* ------------------------------ universe ------------------------------ *)

\* Rows of the users table, and a username that matches no row.
Users == {"alice", "bob"}
Usernames == Users \cup {"mallory"}
StoredPassword == [alice |-> "Secret123!", bob |-> "Password123!"]
\* What a client may type: each is the password of one user and a wrong
\* password for the other.
Passwords == {"Secret123!", "Password123!"}
RoleOf == [alice |-> "manager", bob |-> "viewer"]
IPs == {"192.168.1.1"}
UserAgents == {"Test"}

\* A nullable column: None, or Some(v).
None == {}
Some(v) == {v}
Val(s) == CHOOSE v \in s : TRUE
\* A null foreign key to User.
NoUser == "<null>"

VARIABLES
    now,        \* timezone.now()
    users,      \* the users table: username -> row
    blacklist,  \* the blacklisted_tokens table: a set of rows, token unique
    auth_log,   \* the auth_logs table, in order of creation
    tokens,     \* every refresh token minted so far
    logged_out, \* history: the tokens a logout has blacklisted
    last,       \* history: the last call of the use case, the rows it
                \* read, and what it returned
    requests    \* the requests in flight: worker -> the position of its
                \* request in the use case and the request's local variables

vars == <<now, users, blacklist, auth_log, tokens, logged_out, last,
          requests>>

\* The server's workers; each handles one request at a time.
Workers == {"w1", "w2"}
\* A worker between requests.
Idle == [pc |-> "idle"]
NoRequests == [w \in Workers |-> Idle]

(* ------------------------- users/models.py: User ---------------------- *)

\* Mutant: the lock outlives its expiry instant (> for >=).
is_account_locked_Strict(user, t) ==
    IF user.account_locked_until = None
    THEN [ret |-> FALSE, user |-> user]
    ELSE IF t > Val(user.account_locked_until)
         THEN [ret |-> FALSE,
               user |-> [user EXCEPT !.account_locked_until = None,
                                     !.failed_login_attempts = 0]]
         ELSE [ret |-> TRUE, user |-> user]

\* Mutant: the lock check never reports a lock.
is_account_locked_Never(user, t) ==
    IF user.account_locked_until = None
    THEN [ret |-> FALSE, user |-> user]
    ELSE IF t >= Val(user.account_locked_until)
         THEN [ret |-> FALSE,
               user |-> [user EXCEPT !.account_locked_until = None,
                                     !.failed_login_attempts = 0]]
         ELSE [ret |-> FALSE, user |-> user]

\* Mutant: a lock never lapses.
is_account_locked_Permanent(user, t) ==
    IF user.account_locked_until = None
    THEN [ret |-> FALSE, user |-> user]
    ELSE [ret |-> TRUE, user |-> user]

\* Mutant: an attempt during a lock is counted.
is_account_locked_Count(user, t) ==
    IF user.account_locked_until = None
    THEN [ret |-> FALSE, user |-> user]
    ELSE IF t >= Val(user.account_locked_until)
         THEN [ret |-> FALSE,
               user |-> [user EXCEPT !.account_locked_until = None,
                                     !.failed_login_attempts = 0]]
         ELSE [ret |-> TRUE,
               user |-> [user EXCEPT !.failed_login_attempts = @ + 1]]

\* User.is_account_locked: the returned bool and the row as saved.
is_account_locked(user, t) ==
    IF user.account_locked_until = None
    THEN [ret |-> FALSE, user |-> user]
    ELSE IF t >= Val(user.account_locked_until)
         THEN [ret |-> FALSE,
               user |-> [user EXCEPT !.account_locked_until = None,
                                     !.failed_login_attempts = 0]]
         ELSE [ret |-> TRUE, user |-> user]

\* Mutant: the counter is not reset.
reset_failed_attempts_LockOnly(user) ==
    [user EXCEPT !.account_locked_until = None]

\* User.reset_failed_attempts
reset_failed_attempts(user) ==
    [user EXCEPT !.failed_login_attempts = 0,
                 !.account_locked_until = None]

\* Mutant: the lock is set one failure early.
increment_failed_attempts_Early(user, t) ==
    LET n == user.failed_login_attempts + 1
    IN  [user EXCEPT !.failed_login_attempts = n,
                     !.account_locked_until =
                         IF n >= LOCK_THRESHOLD - 1
                         THEN Some(t + LOCK_MINUTES)
                         ELSE user.account_locked_until]

\* Mutant: a failure counts twice.
increment_failed_attempts_ByTwo(user, t) ==
    LET n == user.failed_login_attempts + 2
    IN  [user EXCEPT !.failed_login_attempts = n,
                     !.account_locked_until =
                         IF n >= LOCK_THRESHOLD
                         THEN Some(t + LOCK_MINUTES)
                         ELSE user.account_locked_until]

\* Mutant: the lock needs a sixth failure (> for >=).
increment_failed_attempts_Late(user, t) ==
    LET n == user.failed_login_attempts + 1
    IN  [user EXCEPT !.failed_login_attempts = n,
                     !.account_locked_until =
                         IF n > LOCK_THRESHOLD
                         THEN Some(t + LOCK_MINUTES)
                         ELSE user.account_locked_until]

\* User.increment_failed_attempts
increment_failed_attempts(user, t) ==
    LET n == user.failed_login_attempts + 1
    IN  [user EXCEPT !.failed_login_attempts = n,
                     !.account_locked_until =
                         IF n >= LOCK_THRESHOLD
                         THEN Some(t + LOCK_MINUTES)
                         ELSE user.account_locked_until]

\* Mutant: any password passes.
check_password_Any(user, password) == TRUE

\* User.check_password: the stored hash is the hash of the given password.
check_password(user, password) == user.password = password

(* ------------------------------ Token Codec --------------------------- *)

\* RefreshToken.for_user(user) with the role and username claims added.
MintRefresh(user, t, jti) ==
    [token_type |-> "refresh", user_id |-> user.username, role |-> user.role,
     username |-> user.username, exp |-> t + RefreshLifetime, jti |-> jti,
     signed |-> TRUE]

\* Mutant: the custom claims are not carried over; the role falls back to
\* the default one.
AccessTokenOf_DefaultRole(token, t) ==
    [token_type |-> "access", user_id |-> token.user_id, role |-> "viewer",
     username |-> token.username, exp |-> t + ACCESS_TOKEN_MINUTES]

\* refresh.access_token: the claims of the refresh token but its type,
\* expiry and identifier.
AccessTokenOf(token, t) ==
    [token_type |-> "access", user_id |-> token.user_id, role |-> token.role,
     username |-> token.username, exp |-> t + ACCESS_TOKEN_MINUTES]

\* Mutant: the expiry claim is not verified.
RefreshToken_NoExpiry(token, t) ==
    token.signed /\ token.token_type = "refresh"

\* RefreshToken(refresh_token): TRUE when it parses, FALSE on TokenError
\* (bad signature, wrong type, or expired).
RefreshToken(token, t) ==
    token.signed /\ token.token_type = "refresh" /\ t < token.exp

\* A token string no key of this service signed.
ForgedToken ==
    [token_type |-> "refresh", user_id |-> "alice", role |-> "admin",
     username |-> "alice", exp |-> MaxTime + 1, jti |-> 0, signed |-> FALSE]


(* ------------------- users/models.py: BlacklistedToken ---------------- *)

RowsOf(bl, token) == {r \in bl : r.token = token}

\* Mutant: no token is ever reported as blacklisted.
is_blacklisted_Never(bl, token, t) == [ret |-> FALSE, blacklist |-> bl]

\* Mutant: a row is still in force at its expiry instant (<= for <).
is_blacklisted_Inclusive(bl, token, t) ==
    IF RowsOf(bl, token) = {}
    THEN [ret |-> FALSE, blacklist |-> bl]
    ELSE LET blacklisted == CHOOSE r \in RowsOf(bl, token) : TRUE
         IN  IF t <= blacklisted.expires_at
             THEN [ret |-> TRUE, blacklist |-> bl]
             ELSE [ret |-> FALSE, blacklist |-> bl \ {blacklisted}]

\* BlacklistedToken.is_blacklisted: the returned bool and the table after.
is_blacklisted(bl, token, t) ==
    IF RowsOf(bl, token) = {}
    THEN [ret |-> FALSE, blacklist |-> bl]
    ELSE LET blacklisted == CHOOSE r \in RowsOf(bl, token) : TRUE
         IN  IF t < blacklisted.expires_at
             THEN [ret |-> TRUE, blacklist |-> bl]
             ELSE [ret |-> FALSE, blacklist |-> bl \ {blacklisted}]

(* -------------------- auth_service.py: LoginUseCase ------------------- *)

\* Mutant: a rejected inactive account leaves no audit row.
log_auth_event_DropInactive(user, username, event_type, ip_address, user_agent, success, failure_reason, t) ==
    IF failure_reason = "Account inactive"
    THEN << >>
    ELSE << [user |-> user, username_attempted |-> username,
             event_type |-> event_type, ip_address |-> ip_address,
             user_agent |-> user_agent, success |-> success,
             failure_reason |-> failure_reason, created_at |-> t] >>

\* Mutant: the attempted username is stored as the user reference.
log_auth_event_NoNull(user, username, event_type, ip_address, user_agent, success, failure_reason, t) ==
    << [user |-> username, username_attempted |-> username,
        event_type |-> event_type, ip_address |-> ip_address,
        user_agent |-> user_agent, success |-> success,
        failure_reason |-> failure_reason, created_at |-> t] >>

\* LoginUseCase._log_auth_event: the AuthLog rows it creates (one).
log_auth_event(user, username, event_type, ip_address, user_agent, success, failure_reason, t) ==
    << [user |-> user, username_attempted |-> username,
        event_type |-> event_type, ip_address |-> ip_address,
        user_agent |-> user_agent, success |-> success,
        failure_reason |-> failure_reason, created_at |-> t] >>

\* Mutant: every error is reported as the generic one.
error_response_Generic(error_code, message) ==
    [success |-> FALSE, error_code |-> INVALID_CREDENTIALS,
     message |-> <<"Invalid credentials">>]

\* LoginUseCase._error_response
error_response(error_code, message) ==
    [success |-> FALSE, error_code |-> error_code, message |-> message]

success_response(data) == [success |-> TRUE] @@ data

serialize_user(user) ==
    [username |-> user.username, role |-> user.role]

\* strftime("%H:%M") of a timestamp.
HHMM(t) == <<t \div 60, t % 60>>

\* LoginUseCase.login: the rows after the call, the audit rows it creates,
\* the refresh tokens it mints, and the returned dict.
login(us, username, password, ip_address, user_agent, t, jti) ==
    IF username \notin DOMAIN us
    THEN [users |-> us,
          log |-> log_auth_event(NoUser, username, "login_failed", ip_address,
                                 user_agent, FALSE, "Invalid username", t),
          minted |-> {},
          result |-> error_response(INVALID_CREDENTIALS,
                                    <<"Invalid credentials">>)]
    ELSE
    LET chk == is_account_locked(us[username], t)
        user == chk.user
    IN  IF chk.ret
        THEN [users |-> [us EXCEPT ![username] = user],
              log |-> log_auth_event(username, username, "login_failed",
                                     ip_address, user_agent, FALSE,
                                     "Account locked", t),
              minted |-> {},
              result |-> error_response(ACCOUNT_LOCKED,
                  <<"Account is locked. Try again after ",
                    HHMM(Val(user.account_locked_until))>>)]
        ELSE IF ~user.is_active
        THEN [users |-> [us EXCEPT ![username] = user],
              log |-> log_auth_event(username, username, "login_failed",
                                     ip_address, user_agent, FALSE,
                                     "Account inactive", t),
              minted |-> {},
              result |-> error_response(INACTIVE_ACCOUNT,
                  <<"Account is inactive. Please contact administrator.">>)]
        ELSE IF ~check_password(user, password)
        THEN LET failed == increment_failed_attempts(user, t)
                 chk2 == is_account_locked(failed, t)
             IN  [users |-> [us EXCEPT ![username] = chk2.user],
                  log |-> log_auth_event(username, username, "login_failed",
                                         ip_address, user_agent, FALSE,
                                         "Invalid password", t),
                  minted |-> {},
                  result |->
                      IF chk2.ret
                      THEN error_response(ACCOUNT_LOCKED,
                        <<"Too many failed attempts. Account locked for 15 minutes.">>)
                      ELSE error_response(INVALID_CREDENTIALS,
                                          <<"Invalid credentials">>)]
        ELSE LET ok == [reset_failed_attempts(user) EXCEPT
                            !.last_login = Some(t),
                            !.last_login_ip = Some(ip_address)]
                 refresh == MintRefresh(ok, t, jti)
             IN  [users |-> [us EXCEPT ![username] = ok],
                  log |-> log_auth_event(username, username, "login_success",
                                         ip_address, user_agent, TRUE, "", t),
                  minted |-> {refresh},
                  result |-> success_response(
                      [access_token |-> AccessTokenOf(refresh, t),
                       refresh_token |-> refresh,
                       user |-> serialize_user(ok)])]

\* Mutant: the token column is not unique, a second row is created.
logout_Duplicate(bl, user, refresh_token, ip_address, user_agent, t) ==
    IF ~RefreshToken(refresh_token, t)
    THEN [blacklist |-> bl, log |-> <<>>,
          result |-> error_response(LOGOUT_FAILED,
                         <<"Invalid token: ", "Token is invalid or expired">>)]
    ELSE [blacklist |-> bl \cup {[token |-> refresh_token, user |-> user,
                                   reason |-> "logout",
                                   expires_at |-> refresh_token.exp]},
          log |-> log_auth_event(user, user, "logout", ip_address,
                                   user_agent, TRUE, "", t),
          result |-> success_response(
                         [message |-> <<"Logged out successfully">>])]

\* Mutant: the blacklist row expires an access-token lifetime from now
\* instead of at the refresh token's own expiry.
logout_AccessExpiry(bl, user, refresh_token, ip_address, user_agent, t) ==
    IF ~RefreshToken(refresh_token, t)
    THEN [blacklist |-> bl, log |-> <<>>,
          result |-> error_response(LOGOUT_FAILED,
                         <<"Invalid token: ", "Token is invalid or expired">>)]
    ELSE IF RowsOf(bl, refresh_token) # {}
    THEN [blacklist |-> bl, log |-> <<>>,
          result |-> error_response(LOGOUT_FAILED,
                         <<"Logout failed: ", "UNIQUE constraint failed">>)]
    ELSE [blacklist |-> bl \cup {[token |-> refresh_token, user |-> user,
                                   reason |-> "logout",
                                   expires_at |-> t + ACCESS_TOKEN_MINUTES]},
          log |-> log_auth_event(user, user, "logout", ip_address,
                                   user_agent, TRUE, "", t),
          result |-> success_response(
                         [message |-> <<"Logged out successfully">>])]

\* LoginUseCase.logout: the blacklist after the call, the audit rows it
\* creates (one or none), and the returned dict.
logout(bl, user, refresh_token, ip_address, user_agent, t) ==
    IF ~RefreshToken(refresh_token, t)
    THEN \* except TokenError
         [blacklist |-> bl, log |-> <<>>,
          result |-> error_response(LOGOUT_FAILED,
                         <<"Invalid token: ", "Token is invalid or expired">>)]
    ELSE IF RowsOf(bl, refresh_token) # {}
    THEN \* token is unique: create() raises IntegrityError, except Exception
         [blacklist |-> bl, log |-> <<>>,
          result |-> error_response(LOGOUT_FAILED,
                         <<"Logout failed: ", "UNIQUE constraint failed">>)]
    ELSE [blacklist |-> bl \cup {[token |-> refresh_token, user |-> user,
                                   reason |-> "logout",
                                   expires_at |-> refresh_token.exp]},
          log |-> log_auth_event(user, user, "logout", ip_address,
                                   user_agent, TRUE, "", t),
          result |-> success_response(
                         [message |-> <<"Logged out successfully">>])]

\* Mutant: the token is parsed before the blacklist is consulted.
refresh_access_token_ParseFirst(bl, refresh_token, t) ==
    IF ~RefreshToken(refresh_token, t)
    THEN [blacklist |-> bl,
          result |-> error_response(TOKEN_REFRESH_FAILED,
                         <<"Invalid token: ", "Token is invalid or expired">>)]
    ELSE LET chk == is_blacklisted(bl, refresh_token, t)
         IN  IF chk.ret
             THEN [blacklist |-> chk.blacklist,
                   result |-> error_response(TOKEN_REVOKED,
                                             <<"Token has been revoked">>)]
             ELSE [blacklist |-> chk.blacklist,
                   result |-> success_response(
                       [access_token |-> AccessTokenOf(refresh_token, t)])]

\* LoginUseCase.refresh_access_token: the blacklist after the call and the
\* returned dict.
refresh_access_token(bl, refresh_token, t) ==
    LET chk == is_blacklisted(bl, refresh_token, t)
    IN  IF chk.ret
        THEN [blacklist |-> chk.blacklist,
              result |-> error_response(TOKEN_REVOKED,
                                        <<"Token has been revoked">>)]
        ELSE IF RefreshToken(refresh_token, t)
        THEN [blacklist |-> chk.blacklist,
              result |-> success_response(
                  [access_token |-> AccessTokenOf(refresh_token, t)])]
        ELSE [blacklist |-> chk.blacklist,
              result |-> error_response(TOKEN_REFRESH_FAILED,
                         <<"Invalid token: ", "Token is invalid or expired">>)]

(* ------------- users/presentation/views.py: AuthViewSet -------------- *)

\* AuthViewSet.login: the HTTP status of the response to a validated request.
login_view_status(result) ==
    IF result.success THEN 200
    ELSE IF result.error_code \in {"AUTH-001"} THEN 401
    ELSE IF result.error_code \in {"AUTH-002"} THEN 403
    ELSE IF result.error_code \in {"AUTH-003"} THEN 403
    ELSE 400

\* AuthViewSet.logout
logout_view_status(result) == IF result.success THEN 200 ELSE 400

\* Mutant: a token that fails parsing is answered 400.
refresh_view_status_Invalid400(result) ==
    IF result.success THEN 200
    ELSE IF result.error_code \in {"AUTH-005"} THEN 401
    ELSE 400

\* AuthViewSet.refresh
refresh_view_status(result) ==
    IF result.success THEN 200
    ELSE IF result.error_code \in {"AUTH-005", "AUTH-006"} THEN 401
    ELSE 400

(* ------------------------------ the machine --------------------------- *)

\* Users are created out of band; an account may have been deactivated.
InitialActive == {[alice |-> TRUE, bob |-> FALSE]}

NewUser(u, active) ==
    [username |-> u, password |-> StoredPassword[u], role |-> RoleOf[u],
     is_active |-> active, failed_login_attempts |-> 0,
     account_locked_until |-> None, last_login |-> None,
     last_login_ip |-> None]

Init ==
    /\ now = 0
    /\ \E act \in InitialActive :
           users = [u \in Users |-> NewUser(u, act[u])]
    /\ blacklist = {}
    /\ auth_log = <<>>
    /\ tokens = {}
    /\ logged_out = {}
    /\ last = [op |-> "none"]
    /\ requests = NoRequests

\* The clock advances.
Tick ==
    /\ now + ClockStep <= MaxTime
    /\ now' = now + ClockStep
    /\ UNCHANGED <<users, blacklist, auth_log, tokens, logged_out, last, requests>>

\* The login attempts so far that named no user or an inactive one.
Stray(log) ==
    Cardinality({i \in 1..Len(log) :
        log[i].failure_reason \in {"Invalid username", "Account inactive"}})

\* A call of LoginUseCase.login.
Login(username, password, ip_address, user_agent) ==
    /\ (username \notin DOMAIN users \/ ~users[username].is_active)
           => Stray(auth_log) < MaxStray
    /\ LET r == login(users, username, password, ip_address, user_agent, now,
                      Cardinality(tokens) + 1)
       IN  /\ Len(auth_log) + Len(r.log) <= MaxLog
           /\ Cardinality(tokens \cup r.minted) <= MaxTokens
           /\ users' = r.users
           /\ auth_log' = auth_log \o r.log
           /\ tokens' = tokens \cup r.minted
           /\ last' = [op |-> "login", at |-> now, username |-> username,
                       password |-> password,
                       before |-> IF username \in DOMAIN users
                                  THEN Some(users[username]) ELSE None,
                       result |-> r.result]
    /\ UNCHANGED <<now, blacklist, logged_out, requests>>

\* A call of LoginUseCase.logout by an authenticated user: one who holds an
\* access token, so one who has logged in.
Logout(user, refresh_token, ip_address, user_agent) ==
    /\ \E tk \in tokens : tk.user_id = user
    /\ LET r == logout(blacklist, user, refresh_token, ip_address, user_agent,
                       now)
       IN  /\ Len(auth_log) + Len(r.log) <= MaxLog
           /\ blacklist' = r.blacklist
           /\ auth_log' = auth_log \o r.log
           /\ logged_out' = IF r.result.success
                            THEN logged_out \cup {refresh_token}
                            ELSE logged_out
           /\ last' = [op |-> "logout", at |-> now, user |-> user,
                       token |-> refresh_token,
                       before |-> RowsOf(blacklist, refresh_token),
                       result |-> r.result]
    /\ UNCHANGED <<now, users, tokens, requests>>

\* Mutant: a refresh is audited as a token_refresh event.
Refresh_Audited(refresh_token) ==
    /\ LET r == refresh_access_token(blacklist, refresh_token, now)
       IN  /\ blacklist' = r.blacklist
           /\ last' = [op |-> "refresh", at |-> now,
                       token |-> refresh_token,
                       before |-> RowsOf(blacklist, refresh_token),
                       result |-> r.result]
           /\ auth_log' = auth_log \o log_auth_event(refresh_token.user_id,
                  refresh_token.user_id, "token_refresh", "192.168.1.1",
                  "Test", r.result.success, "", now)
    /\ UNCHANGED <<now, users, tokens, logged_out, requests>>

\* Mutant: a refresh prunes the oldest audit record.
Refresh_Prune(refresh_token) ==
    /\ LET r == refresh_access_token(blacklist, refresh_token, now)
       IN  /\ blacklist' = r.blacklist
           /\ last' = [op |-> "refresh", at |-> now,
                       token |-> refresh_token,
                       before |-> RowsOf(blacklist, refresh_token),
                       result |-> r.result]
    /\ auth_log' = IF auth_log = << >> THEN auth_log ELSE Tail(auth_log)
    /\ UNCHANGED <<now, users, tokens, logged_out, requests>>

\* A call of LoginUseCase.refresh_access_token.
Refresh(refresh_token) ==
    /\ LET r == refresh_access_token(blacklist, refresh_token, now)
       IN  /\ blacklist' = r.blacklist
           /\ last' = [op |-> "refresh", at |-> now,
                       token |-> refresh_token,
                       before |-> RowsOf(blacklist, refresh_token),
                       result |-> r.result]
    /\ UNCHANGED <<now, users, auth_log, tokens, logged_out, requests>>

Next ==
    \/ Tick
    \/ \E user \in Users, tk \in tokens, ip \in IPs, ua \in UserAgents :
          Logout(user, tk, ip, ua)
    \/ \E tk \in tokens : Refresh(tk)
    \/ \E username \in Usernames, password \in Passwords,
          ip \in IPs, ua \in UserAgents : Login(username, password, ip, ua)

Spec == Init /\ [][Next]_vars

(* ---------------- the token endpoints over a seeded store ------------- *)

\* BlacklistedToken rows are also written outside LoginUseCase: REASON_CHOICES
\* names three reasons no code of the use case writes, and the tests create
\* rows directly with an expiry of their own choosing.  StoreSpec starts
\* from such a store and lets clients present forged tokens as well.
SeedTokens == {MintRefresh(NewUser("alice", TRUE), 0, 1)}

SeedRows ==
    [token : SeedTokens \cup {ForgedToken}, user : {"alice"},
     reason : {"security", "admin_revoke"},
     expires_at : {ClockStep, 2 * ClockStep}]

\* token is unique (models.py:177-181).
SeededStores ==
    {rows \in SUBSET SeedRows :
        \A r1, r2 \in rows : r1.token = r2.token => r1 = r2}

StoreInit ==
    /\ now = 0
    /\ \E act \in InitialActive :
           users = [u \in Users |-> NewUser(u, act[u])]
    /\ blacklist \in SeededStores
    /\ auth_log = <<>>
    /\ tokens = SeedTokens
    /\ logged_out = {}
    /\ last = [op |-> "none"]
    /\ requests = NoRequests

StoreNext ==
    \/ Tick
    \/ \E user \in Users, tk \in tokens \cup {ForgedToken},
          ip \in IPs, ua \in UserAgents : Logout(user, tk, ip, ua)
    \/ \E tk \in tokens \cup {ForgedToken} : Refresh(tk)

StoreSpec == StoreInit /\ [][StoreNext]_vars

(* ------------------- accounts deactivated while in use ---------------- *)

\* An account is deactivated out of band (user.is_active = False;
\* user.save()), whatever its lockout fields are at that moment.
Deactivate(u) ==
    /\ users[u].is_active
    /\ users' = [users EXCEPT ![u].is_active = FALSE]
    /\ UNCHANGED <<now, blacklist, auth_log, tokens, logged_out, last, requests>>

AdminNext ==
    \/ Next
    \/ \E u \in Users : Deactivate(u)

AdminSpec == Init /\ [][AdminNext]_vars

(* ----------------------- retrieving the audit trail ------------------- *)

\* Mutant: ordering = ['created_at'].
ordering_Ascending(log) ==
    {p \in [1..Len(log) -> 1..Len(log)] :
        /\ \A i, j \in 1..Len(log) : i # j => p[i] # p[j]
        /\ \A i, j \in 1..Len(log) :
               i < j => log[p[i]].created_at <= log[p[j]].created_at}

\* AuthLog.Meta.ordering = ['-created_at']: the orders in which a query may
\* return the rows of the table, each given as the sequence of the rows'
\* places in the table.  ORDER BY created_at DESC sorts by the key
\* -created_at and leaves the order of rows with equal keys open.
ordering(log) ==
    {p \in [1..Len(log) -> 1..Len(log)] :
        /\ \A i, j \in 1..Len(log) : i # j => p[i] # p[j]
        /\ \A i, j \in 1..Len(log) :
               i < j => -log[p[i]].created_at <= -log[p[j]].created_at}

\* list(AuthLog.objects.all())
Retrieve ==
    /\ \E p \in ordering(auth_log) :
           last' = [op |-> "all", at |-> now, order |-> p,
                    result |-> [i \in 1..Len(auth_log) |-> auth_log[p[i]]]]
    /\ UNCHANGED <<now, users, blacklist, auth_log, tokens, logged_out, requests>>

\* The audit rows of logins that change nothing but the log: those naming no
\* user or an inactive one.
TrailRows ==
    {login([u \in Users |-> NewUser(u, act[u])], username, password, ip, ua,
           t, 0).log[1] :
        act \in InitialActive,
        username \in {u \in Usernames :
                         u \notin Users \/ \A a \in InitialActive : ~a[u]},
        password \in Passwords, ip \in IPs, ua \in UserAgents,
        t \in 0..MaxTrailTime}

\* The logs such logins leave, in order of creation.
TrailLogs ==
    {log \in UNION {[1..n -> TrailRows] : n \in 0..MaxTrail} :
        \A i, j \in 1..Len(log) :
            i < j => log[i].created_at <= log[j].created_at}

TrailInit ==
    /\ auth_log \in TrailLogs
    /\ now = IF auth_log = << >> THEN 0
             ELSE auth_log[Len(auth_log)].created_at
    /\ \E act \in InitialActive :
           users = [u \in Users |-> NewUser(u, act[u])]
    /\ blacklist = {}
    /\ tokens = {}
    /\ logged_out = {}
    /\ last = [op |-> "none"]
    /\ requests = NoRequests

TrailNext == Retrieve

TrailSpec == TrailInit /\ [][TrailNext]_vars

(* --------------------------- the refresh endpoint --------------------- *)

\* The body of a POST /api/auth/refresh/: without the refresh_token field,
\* with a blank one, or with a token string.
RefreshRequests ==
    {[refresh_token |-> "missing"], [refresh_token |-> "blank"]}
    \cup {[refresh_token |-> "string", token |-> tk] :
             tk \in tokens \cup {ForgedToken}}

\* TokenRefreshSerializer(data): is_valid(), errors and validated_data.
\* refresh_token is a required CharField that may not be blank.
TokenRefreshSerializer(data) ==
    IF data.refresh_token = "missing"
    THEN [is_valid |-> FALSE,
          errors |-> [refresh_token |-> <<"This field is required.">>]]
    ELSE IF data.refresh_token = "blank"
    THEN [is_valid |-> FALSE,
          errors |-> [refresh_token |-> <<"This field may not be blank.">>]]
    ELSE [is_valid |-> TRUE,
          validated_data |-> [refresh_token |-> data.token]]

\* AuthViewSet.refresh: the whole request, from the body to the response.
RefreshView(data) ==
    LET serializer == TokenRefreshSerializer(data)
    IN  IF ~serializer.is_valid
        THEN /\ last' = [op |-> "refresh_view", at |-> now, data |-> data,
                         before |-> {}, status |-> 400,
                         body |-> serializer.errors]
             /\ UNCHANGED <<now, users, blacklist, auth_log, tokens,
                            logged_out,
                         requests>>
        ELSE LET tk == serializer.validated_data.refresh_token
                 r == refresh_access_token(blacklist, tk, now)
             IN  /\ blacklist' = r.blacklist
                 /\ last' = [op |-> "refresh_view", at |-> now, data |-> data,
                             before |-> RowsOf(blacklist, tk),
                             status |-> refresh_view_status(r.result),
                             body |-> r.result]
                 /\ UNCHANGED <<now, users, auth_log, tokens, logged_out, requests>>

RefreshViewNext ==
    \/ Tick
    \/ \E data \in RefreshRequests : RefreshView(data)

RefreshViewSpec == StoreInit /\ [][RefreshViewNext]_vars

(* ---------------------------- the login endpoint ---------------------- *)

\* A string of a request body is the sequence of its characters.
Repeat(c, n) == [i \in 1..n |-> c]

\* The characters str.strip() removes.
Whitespace == {" ", "\t", "\n"}

\* [a-zA-Z0-9_]
WordChars ==
    {"a", "b", "c", "d", "e", "f", "g", "h", "i", "j", "k", "l", "m",
     "n", "o", "p", "q", "r", "s", "t", "u", "v", "w", "x", "y", "z",
     "A", "B", "C", "D", "E", "F", "G", "H", "I", "J", "K", "L", "M",
     "N", "O", "P", "Q", "R", "S", "T", "U", "V", "W", "X", "Y", "Z",
     "0", "1", "2", "3", "4", "5", "6", "7", "8", "9", "_"}

\* str.strip()
RECURSIVE lstrip(_)
lstrip(s) ==
    IF s # << >> /\ Head(s) \in Whitespace THEN lstrip(Tail(s)) ELSE s

RECURSIVE rstrip(_)
rstrip(s) ==
    IF s # << >> /\ s[Len(s)] \in Whitespace
    THEN rstrip(SubSeq(s, 1, Len(s) - 1))
    ELSE s

strip(s) == rstrip(lstrip(s))

\* re.match(r'^[a-zA-Z0-9_]+$', value): $ also matches before a final "\n".
re_match_word(value) ==
    LET body == IF value # << >> /\ value[Len(value)] = "\n"
                THEN SubSeq(value, 1, Len(value) - 1)
                ELSE value
    IN  /\ body # << >>
        /\ \A i \in 1..Len(body) : body[i] \in WordChars

\* serializers.CharField(min_length, max_length, required=True) run on one
\* field of the body: the validated value, or the error messages.  The field
\* trims surrounding whitespace (trim_whitespace defaults to True) before it
\* checks blankness and length.
CharField(data, field, min_length, max_length) ==
    IF field \notin DOMAIN data
    THEN [ok |-> FALSE, errors |-> <<"This field is required.">>]
    ELSE LET value == strip(data[field])
         IN  IF value = << >>
             THEN [ok |-> FALSE, errors |-> <<"This field may not be blank.">>]
             ELSE IF Len(value) > max_length
             THEN [ok |-> FALSE,
                   errors |-> <<"Ensure this field has no more than ",
                                max_length, " characters.">>]
             ELSE IF Len(value) < min_length
             THEN [ok |-> FALSE,
                   errors |-> <<"Ensure this field has at least ",
                                min_length, " characters.">>]
             ELSE [ok |-> TRUE, value |-> value]

\* LoginSerializer.validate_username
validate_username(value) ==
    IF ~re_match_word(value)
    THEN [ok |-> FALSE,
          errors |-> <<"Username must contain only alphanumeric characters and underscores">>]
    ELSE [ok |-> TRUE, value |-> value]

\* LoginSerializer(data): is_valid(), errors keyed by field, validated_data.
LoginSerializer(data) ==
    LET f_username == CharField(data, "username", USERNAME_MIN_LENGTH,
                                USERNAME_MAX_LENGTH)
        username == IF f_username.ok THEN validate_username(f_username.value)
                    ELSE f_username
        password == CharField(data, "password", PASSWORD_MIN_LENGTH,
                              PASSWORD_MAX_LENGTH)
        failed == {f \in {"username", "password"} :
                      IF f = "username" THEN ~username.ok ELSE ~password.ok}
    IN  IF failed # {}
        THEN [is_valid |-> FALSE,
              errors |-> [f \in failed |->
                             IF f = "username" THEN username.errors
                             ELSE password.errors]]
        ELSE [is_valid |-> TRUE,
              validated_data |-> [username |-> username.value,
                                  password |-> password.value]]

\* The strings of the requests and their characters.
Spelling ==
    {<<"alice", <<"a", "l", "i", "c", "e">> >>,
     <<"bob", <<"b", "o", "b">> >>,
     <<"mallory", <<"m", "a", "l", "l", "o", "r", "y">> >>,
     <<"u_30", Repeat("u", USERNAME_MAX_LENGTH)>>,
     <<"Secret123!", <<"S", "e", "c", "r", "e", "t", "1", "2", "3", "!">> >>,
     <<"Password123!",
       <<"P", "a", "s", "s", "w", "o", "r", "d", "1", "2", "3", "!">> >>,
     <<"x_128", Repeat("x", PASSWORD_MAX_LENGTH)>>}

Chars(text) == (CHOOSE pr \in Spelling : pr[1] = text)[2]
Text(chars) == (CHOOSE pr \in Spelling : pr[2] = chars)[1]

\* The usernames and passwords clients post.
RawUsernames ==
    {Chars("alice"), Chars("bob"), Chars("mallory"), Chars("u_30"),
     <<" ">> \o Chars("alice"), Chars("alice") \o <<"\n">>,
     <<"a", "l">>, <<"a", "-", "l", "i", "c", "e">>,
     Repeat("u", USERNAME_MAX_LENGTH + 1), <<" ", " ", " ">>}

RawPasswords ==
    {Chars("Secret123!"), Chars("Password123!"), Chars("x_128"),
     Chars("Secret123!") \o <<" ">>, Chars("x_128") \o <<" ">>,
     <<"S", "e", "c", "r", "e", "t", "1">>,
     Repeat("x", PASSWORD_MAX_LENGTH + 1)}

\* The bodies of POST /api/auth/login/.
LoginRequests ==
    {[username |-> u, password |-> Chars("Secret123!")] : u \in RawUsernames}
    \cup {[username |-> Chars("alice"), password |-> p] : p \in RawPasswords}
    \cup {[username |-> Chars("alice")], [password |-> Chars("Secret123!")]}

\* AuthViewSet.login: the whole request, from the body to the use case.
LoginView(data) ==
    LET serializer == LoginSerializer(data)
    IN  IF ~serializer.is_valid
        THEN /\ last' = [op |-> "login_view", at |-> now, data |-> data,
                         status |-> 400, body |-> serializer.errors]
             /\ UNCHANGED <<now, users, blacklist, auth_log, tokens,
                            logged_out,
                         requests>>
        ELSE \E ip \in IPs, ua \in UserAgents :
                 Login(Text(serializer.validated_data.username),
                       Text(serializer.validated_data.password), ip, ua)

LoginViewNext ==
    \/ Tick
    \/ \E data \in LoginRequests : LoginView(data)

LoginViewSpec == Init /\ [][LoginViewNext]_vars

(* ------------------------- core/permissions.py ------------------------ *)

ROLE_CHOICES == {"admin", "manager", "viewer"}

\* request.user of a request without credentials; it has no role attribute.
AnonymousUser == [is_authenticated |-> FALSE]
\* request.user of a request with a valid access token.
Account(username, role) ==
    [is_authenticated |-> TRUE, username |-> username, role |-> role]

hasattr(o, name) == name \in DOMAIN o

\* ref == request.user, for a foreign key ref to User: same model, same key.
SameUser(ref, user) == hasattr(user, "username") /\ ref = user.username

IsAdminUser(user) ==
    user.is_authenticated /\ hasattr(user, "role") /\ user.role = "admin"

IsManagerOrAdmin(user) ==
    user.is_authenticated /\ hasattr(user, "role")
        /\ user.role \in {"admin", "manager"}

IsViewerOrAbove(user) ==
    user.is_authenticated /\ hasattr(user, "role")
        /\ user.role \in {"admin", "manager", "viewer"}

\* Mutant: managers pass the object-level check like admins.
IsOwnerOrAdmin_Manager(user, obj) ==
    IF hasattr(user, "role") /\ user.role \in {"admin", "manager"} THEN TRUE
    ELSE IF hasattr(obj, "uploaded_by") THEN SameUser(obj.uploaded_by, user)
    ELSE IF hasattr(obj, "user") THEN SameUser(obj.user, user)
    ELSE FALSE

\* IsOwnerOrAdmin.has_object_permission
IsOwnerOrAdmin(user, obj) ==
    IF hasattr(user, "role") /\ user.role = "admin" THEN TRUE
    ELSE IF hasattr(obj, "uploaded_by") THEN SameUser(obj.uploaded_by, user)
    ELSE IF hasattr(obj, "user") THEN SameUser(obj.user, user)
    ELSE FALSE

PermissionClasses ==
    {"IsAdminUser", "IsManagerOrAdmin", "IsViewerOrAbove", "IsOwnerOrAdmin"}

\* permission.has_permission(request, view); BasePermission's is True.
has_permission(class, user) ==
    CASE class = "IsAdminUser" -> IsAdminUser(user)
      [] class = "IsManagerOrAdmin" -> IsManagerOrAdmin(user)
      [] class = "IsViewerOrAbove" -> IsViewerOrAbove(user)
      [] class = "IsOwnerOrAdmin" -> TRUE

\* permission.has_object_permission(request, view, obj); BasePermission's
\* is True.
has_object_permission(class, user, obj) ==
    CASE class = "IsOwnerOrAdmin" -> IsOwnerOrAdmin(user, obj)
      [] OTHER -> TRUE

\* The people with an account, two of each role, and the objects a view
\* hands to the check: a Dataset (uploaded_by), an AuthLog or
\* BlacklistedToken (user, nullable), a DataRecord (no owner field).
Staff == {"kim", "lee"}
Requesters == {Account(n, r) : n \in Staff, r \in ROLE_CHOICES}
                  \cup {AnonymousUser}
Objects ==
    {[uploaded_by |-> n] : n \in Staff}
        \cup {[user |-> n] : n \in Staff \cup {NoUser}}
        \cup {[dataset |-> 1]}

\* A request waiting for its permission check.
PermInit ==
    /\ now = 0
    /\ \E act \in InitialActive :
           users = [u \in Users |-> NewUser(u, act[u])]
    /\ blacklist = {}
    /\ auth_log = <<>>
    /\ tokens = {}
    /\ logged_out = {}
    /\ last = [op |-> "none"]
    /\ \E u \in Requesters, o \in Objects :
           requests = [NoRequests EXCEPT
                           !["w1"] = [pc |-> "permission", user |-> u,
                                      obj |-> o]]

\* APIView.check_permissions and check_object_permissions for one class.
CheckPermission(w, class) ==
    /\ requests[w].pc = "permission"
    /\ last' = [op |-> "permission", class |-> class,
                user |-> requests[w].user, obj |-> requests[w].obj,
                has_permission |-> has_permission(class, requests[w].user),
                has_object_permission |->
                    has_object_permission(class, requests[w].user,
                                          requests[w].obj)]
    /\ UNCHANGED <<now, users, blacklist, auth_log, tokens, logged_out,
                   requests>>

PermNext == \E w \in Workers, class \in PermissionClasses :
                CheckPermission(w, class)

PermSpec == PermInit /\ [][PermNext]_vars

(* -------------- LoginUseCase.login, one query at a time --------------- *)

\* The local variables of a call of login that has just begun. user is the
\* in-memory copy of the row, read the row as it was fetched, wrote the
\* counter and lock the call saved for its own failure or success,
\* audit_failed whether AuthLog.objects.create raised.
LoginRequest(served, username, password, ip_address, user_agent) ==
    [op |-> "login", pc |-> "get", served |-> served,
     username |-> username, password |-> password,
     ip_address |-> ip_address, user_agent |-> user_agent,
     user |-> None, read |-> None, wrote |-> None,
     success |-> FALSE, failure_reason |-> "", audit_failed |-> FALSE,
     result |-> None]

\* Mutant: only the counter is written back.
save_security_fields_CounterOnly(us, user) ==
    [us EXCEPT ![user.username].failed_login_attempts =
                   user.failed_login_attempts]

\* self.save(update_fields=['failed_login_attempts',
\* 'account_locked_until']): the two columns of the row are overwritten with
\* the values of the in-memory copy.
save_security_fields(us, user) ==
    [us EXCEPT ![user.username].failed_login_attempts =
                   user.failed_login_attempts,
               ![user.username].account_locked_until =
                   user.account_locked_until]

\* The counter and the lock of a row.
SecurityFields(user) ==
    <<user.failed_login_attempts, user.account_locked_until>>

\* Mutant: a wrong password is logged without being counted.
after_check_password_LogFirst(ok) == IF ok THEN "reset" ELSE "log"

\* if not user.check_password(password): user.increment_failed_attempts()
\* ... else: user.reset_failed_attempts()
after_check_password(ok) == IF ok THEN "reset" ELSE "increment"

\* A request reaches a free worker.
BeginLogin(w, username, password, ip_address, user_agent) ==
    /\ requests[w].pc \in {"idle", "done"}
    /\ requests[w].served < MaxServed
    /\ requests' = [requests EXCEPT ![w] =
           LoginRequest(requests[w].served + 1, username, password,
                        ip_address, user_agent)]
    /\ UNCHANGED <<now, users, blacklist, auth_log, tokens, logged_out, last>>

\* user = User.objects.get(username=username)
GetUser(w) ==
    LET r == requests[w]
    IN  /\ r.pc = "get"
        /\ requests' = [requests EXCEPT ![w] =
               IF r.username \notin DOMAIN users
               THEN [r EXCEPT !.pc = "log",
                              !.failure_reason = "Invalid username",
                              !.result = Some(error_response(
                                  INVALID_CREDENTIALS,
                                  <<"Invalid credentials">>))]
               ELSE [r EXCEPT !.pc = "is_account_locked",
                              !.user = Some(users[r.username]),
                              !.read = Some(users[r.username])]]
        /\ UNCHANGED <<now, users, blacklist, auth_log, tokens, logged_out,
                       last>>

\* if user.is_account_locked(): ... ; if not user.is_active: ... ;
\* if not user.check_password(password): ...
CheckAccount(w) ==
    LET r == requests[w]
        chk == is_account_locked(Val(r.user), now)
        user == chk.user
    IN  /\ r.pc = "is_account_locked"
        /\ users' = IF user # Val(r.user)
                    THEN save_security_fields(users, user) ELSE users
        /\ requests' = [requests EXCEPT ![w] =
               IF chk.ret
               THEN [r EXCEPT !.pc = "log", !.user = Some(user),
                              !.failure_reason = "Account locked",
                              !.result = Some(error_response(ACCOUNT_LOCKED,
                                  <<"Account is locked. Try again after ",
                                    HHMM(Val(user.account_locked_until))>>))]
               ELSE IF ~user.is_active
               THEN [r EXCEPT !.pc = "log", !.user = Some(user),
                              !.failure_reason = "Account inactive",
                              !.result = Some(error_response(INACTIVE_ACCOUNT,
                  <<"Account is inactive. Please contact administrator.">>))]
               ELSE [r EXCEPT !.pc = after_check_password(
                                         check_password(user, r.password)),
                              !.user = Some(user)]]
        /\ UNCHANGED <<now, blacklist, auth_log, tokens, logged_out, last>>

\* Mutant: the increment is done by the database on the stored value.
Increment_Atomic(w) ==
    LET r == requests[w]
        user == increment_failed_attempts(
                    [Val(r.user) EXCEPT !.failed_login_attempts =
                         users[r.username].failed_login_attempts], now)
    IN  /\ r.pc = "increment"
        /\ users' = save_security_fields(users, user)
        /\ requests' = [requests EXCEPT ![w] =
               [r EXCEPT !.pc = "log", !.user = Some(user),
                         !.wrote = Some(SecurityFields(user)),
                         !.failure_reason = "Invalid password"]]
        /\ UNCHANGED <<now, blacklist, auth_log, tokens, logged_out, last>>

\* user.increment_failed_attempts()
Increment(w) ==
    LET r == requests[w]
        user == increment_failed_attempts(Val(r.user), now)
    IN  /\ r.pc = "increment"
        /\ users' = save_security_fields(users, user)
        /\ requests' = [requests EXCEPT ![w] =
               [r EXCEPT !.pc = "log", !.user = Some(user),
                         !.wrote = Some(SecurityFields(user)),
                         !.failure_reason = "Invalid password"]]
        /\ UNCHANGED <<now, blacklist, auth_log, tokens, logged_out, last>>

\* user.reset_failed_attempts()
Reset(w) ==
    LET r == requests[w]
        user == reset_failed_attempts(Val(r.user))
    IN  /\ r.pc = "reset"
        /\ users' = save_security_fields(users, user)
        /\ requests' = [requests EXCEPT ![w] =
               [r EXCEPT !.pc = "last_login", !.user = Some(user),
                         !.wrote = Some(SecurityFields(user))]]
        /\ UNCHANGED <<now, blacklist, auth_log, tokens, logged_out, last>>

\* user.save(update_fields=['last_login', 'last_login_ip']) and the tokens
\* made for the user.
SaveLastLogin(w) ==
    LET r == requests[w]
        user == [Val(r.user) EXCEPT !.last_login = Some(now),
                                    !.last_login_ip = Some(r.ip_address)]
        refresh == MintRefresh(user, now, Cardinality(tokens) + 1)
    IN  /\ r.pc = "last_login"
        /\ Cardinality(tokens) < MaxTokens
        /\ users' = [users EXCEPT
                         ![r.username].last_login = user.last_login,
                         ![r.username].last_login_ip = user.last_login_ip]
        /\ tokens' = tokens \cup {refresh}
        /\ requests' = [requests EXCEPT ![w] =
               [r EXCEPT !.pc = "log", !.user = Some(user),
                         !.success = TRUE,
                         !.result = Some(success_response(
                             [access_token |-> AccessTokenOf(refresh, now),
                              refresh_token |-> refresh,
                              user |-> serialize_user(user)]))]]
        /\ UNCHANGED <<now, blacklist, auth_log, logged_out, last>>

\* self._log_auth_event(...), and the return that follows it on every path
\* but the wrong-password one.
LogEvent(w) ==
    LET r == requests[w]
    IN  /\ r.pc = "log"
        /\ r.op = "login"
        /\ auth_log' = auth_log \o log_auth_event(
               IF r.user = None THEN NoUser ELSE r.username, r.username,
               IF r.success THEN "login_success" ELSE "login_failed",
               r.ip_address, r.user_agent, r.success, r.failure_reason, now)
        /\ requests' = [requests EXCEPT ![w] =
               [r EXCEPT !.pc = IF r.failure_reason = "Invalid password"
                                THEN "locked_now" ELSE "done"]]
        /\ UNCHANGED <<now, users, blacklist, tokens, logged_out, last>>

\* if user.is_account_locked(): return ACCOUNT_LOCKED ... return
\* INVALID_CREDENTIALS, after a wrong password.
CheckLockedNow(w) ==
    LET r == requests[w]
        chk == is_account_locked(Val(r.user), now)
    IN  /\ r.pc = "locked_now"
        /\ users' = IF chk.user # Val(r.user)
                    THEN save_security_fields(users, chk.user) ELSE users
        /\ requests' = [requests EXCEPT ![w] =
               [r EXCEPT !.pc = "done", !.user = Some(chk.user),
                         !.result = Some(
                      IF chk.ret
                      THEN error_response(ACCOUNT_LOCKED,
                        <<"Too many failed attempts. Account locked for 15 minutes.">>)
                      ELSE error_response(INVALID_CREDENTIALS,
                                          <<"Invalid credentials">>))]]
        /\ UNCHANGED <<now, blacklist, auth_log, tokens, logged_out, last>>

\* The account as a run of n wrong passwords at minute 0 leaves it, and the
\* audit records of that run.
StreakRow(u, n) ==
    [NewUser(u, TRUE) EXCEPT
        !.failed_login_attempts = n,
        !.account_locked_until =
            IF n >= LOCK_THRESHOLD THEN Some(LOCK_MINUTES) ELSE None]
StreakLog(u, n) ==
    [i \in 1..n |->
        log_auth_event(u, u, "login_failed", "192.168.1.1", "Test", FALSE,
                       "Invalid password", 0)[1]]

ConcInit ==
    /\ now = 0
    /\ \E n \in 0..LOCK_THRESHOLD :
           /\ users = [u \in Users |->
                          IF u = "alice" THEN StreakRow(u, n)
                          ELSE NewUser(u, FALSE)]
           /\ auth_log = StreakLog("alice", n)
    /\ blacklist = {}
    /\ tokens = {}
    /\ logged_out = {}
    /\ last = [op |-> "none"]
    /\ requests = [w \in Workers |-> [pc |-> "idle", served |-> 0]]

ConcNext ==
    \/ Tick
    \/ \E w \in Workers, password \in Passwords, ip \in IPs,
          ua \in UserAgents : BeginLogin(w, "alice", password, ip, ua)
    \/ \E w \in Workers : GetUser(w)
    \/ \E w \in Workers : CheckAccount(w)
    \/ \E w \in Workers : Increment(w)
    \/ \E w \in Workers : Reset(w)
    \/ \E w \in Workers : SaveLastLogin(w)
    \/ \E w \in Workers : LogEvent(w)
    \/ \E w \in Workers : CheckLockedNow(w)

ConcSpec == ConcInit /\ [][ConcNext]_vars

(* ------- LoginUseCase.logout and refresh_access_token, by query ------- *)

\* The local variables of a call of refresh_access_token; rows is history:
\* the blacklist rows of the token at the moment the call returned.
RefreshRequest(served, refresh_token) ==
    [op |-> "refresh", pc |-> "is_blacklisted", served |-> served,
     token |-> refresh_token, rows |-> {}, result |-> None]

LogoutRequest(served, user, refresh_token, ip_address, user_agent) ==
    [op |-> "logout", pc |-> "create", served |-> served, user |-> user,
     token |-> refresh_token, ip_address |-> ip_address,
     user_agent |-> user_agent, audit_failed |-> FALSE, result |-> None]

BeginRefresh(w, refresh_token) ==
    /\ requests[w].pc \in {"idle", "done"}
    /\ requests[w].served < MaxServed
    /\ requests' = [requests EXCEPT ![w] =
           RefreshRequest(requests[w].served + 1, refresh_token)]
    /\ UNCHANGED <<now, users, blacklist, auth_log, tokens, logged_out, last>>

\* if BlacklistedToken.is_blacklisted(refresh_token): return TOKEN_REVOKED
CheckBlacklisted(w) ==
    LET r == requests[w]
        chk == is_blacklisted(blacklist, r.token, now)
    IN  /\ r.pc = "is_blacklisted"
        /\ blacklist' = chk.blacklist
        /\ requests' = [requests EXCEPT ![w] =
               IF chk.ret
               THEN [r EXCEPT !.pc = "done",
                              !.result = Some(error_response(TOKEN_REVOKED,
                                             <<"Token has been revoked">>))]
               ELSE [r EXCEPT !.pc = "parse"]]
        /\ UNCHANGED <<now, users, auth_log, tokens, logged_out, last>>

\* Mutant: the blacklist is consulted again when the token is parsed.
ParseRefresh_Recheck(w) ==
    LET r == requests[w]
    IN  /\ r.pc = "parse"
        /\ requests' = [requests EXCEPT ![w] =
               [r EXCEPT !.pc = "done",
                         !.rows = RowsOf(blacklist, r.token),
                         !.result = Some(
                   IF is_blacklisted(blacklist, r.token, now).ret
                   THEN error_response(TOKEN_REVOKED,
                                       <<"Token has been revoked">>)
                   ELSE IF RefreshToken(r.token, now)
                   THEN success_response(
                            [access_token |-> AccessTokenOf(r.token, now)])
                   ELSE error_response(TOKEN_REFRESH_FAILED,
                         <<"Invalid token: ", "Token is invalid or expired">>))]]
        /\ UNCHANGED <<now, users, blacklist, auth_log, tokens, logged_out,
                       last>>

\* token_obj = RefreshToken(refresh_token); return the new access token, or
\* TOKEN_REFRESH_FAILED on TokenError.
ParseRefresh(w) ==
    LET r == requests[w]
    IN  /\ r.pc = "parse"
        /\ requests' = [requests EXCEPT ![w] =
               [r EXCEPT !.pc = "done",
                         !.rows = RowsOf(blacklist, r.token),
                         !.result = Some(
                   IF RefreshToken(r.token, now)
                   THEN success_response(
                            [access_token |-> AccessTokenOf(r.token, now)])
                   ELSE error_response(TOKEN_REFRESH_FAILED,
                         <<"Invalid token: ", "Token is invalid or expired">>))]]
        /\ UNCHANGED <<now, users, blacklist, auth_log, tokens, logged_out,
                       last>>

BeginLogout(w, user, refresh_token, ip_address, user_agent) ==
    /\ requests[w].pc \in {"idle", "done"}
    /\ requests[w].served < MaxServed
    /\ \E tk \in tokens : tk.user_id = user
    /\ requests' = [requests EXCEPT ![w] =
           LogoutRequest(requests[w].served + 1, user, refresh_token,
                         ip_address, user_agent)]
    /\ UNCHANGED <<now, users, blacklist, auth_log, tokens, logged_out, last>>

\* token_obj = RefreshToken(refresh_token);
\* BlacklistedToken.objects.create(...), with the two except clauses.
CreateBlacklisted(w) ==
    LET r == requests[w]
    IN  /\ r.pc = "create"
        /\ IF ~RefreshToken(r.token, now)
           THEN /\ requests' = [requests EXCEPT ![w] =
                      [r EXCEPT !.pc = "done",
                                !.result = Some(error_response(LOGOUT_FAILED,
                         <<"Invalid token: ", "Token is invalid or expired">>))]]
                /\ UNCHANGED <<blacklist, logged_out>>
           ELSE IF RowsOf(blacklist, r.token) # {}
           THEN /\ requests' = [requests EXCEPT ![w] =
                      [r EXCEPT !.pc = "done",
                                !.result = Some(error_response(LOGOUT_FAILED,
                         <<"Logout failed: ", "UNIQUE constraint failed">>))]]
                /\ UNCHANGED <<blacklist, logged_out>>
           ELSE /\ blacklist' = blacklist \cup
                      {[token |-> r.token, user |-> r.user,
                        reason |-> "logout", expires_at |-> r.token.exp]}
                /\ logged_out' = logged_out \cup {r.token}
                /\ requests' = [requests EXCEPT ![w] = [r EXCEPT !.pc = "log"]]
        /\ UNCHANGED <<now, users, auth_log, tokens, last>>

\* self._log_auth_event(...); return the success response.
LogLogout(w) ==
    LET r == requests[w]
    IN  /\ r.pc = "log"
        /\ r.op = "logout"
        /\ auth_log' = auth_log \o log_auth_event(r.user, r.user, "logout",
               r.ip_address, r.user_agent, TRUE, "", now)
        /\ requests' = [requests EXCEPT ![w] =
               [r EXCEPT !.pc = "done",
                         !.result = Some(success_response(
                             [message |-> <<"Logged out successfully">>]))]]
        /\ UNCHANGED <<now, users, blacklist, tokens, logged_out, last>>

RaceInit ==
    /\ now = 0
    /\ \E act \in InitialActive :
           users = [u \in Users |-> NewUser(u, act[u])]
    /\ blacklist \in SeededStores
    /\ auth_log = <<>>
    /\ tokens = SeedTokens
    /\ logged_out = {}
    /\ last = [op |-> "none"]
    /\ requests = [w \in Workers |-> [pc |-> "idle", served |-> 0]]

RaceNext ==
    \/ Tick
    \/ \E w \in Workers, tk \in tokens \cup {ForgedToken} :
          BeginRefresh(w, tk)
    \/ \E w \in Workers : CheckBlacklisted(w)
    \/ \E w \in Workers : ParseRefresh(w)
    \/ \E w \in Workers, user \in Users, tk \in tokens \cup {ForgedToken},
          ip \in IPs, ua \in UserAgents : BeginLogout(w, user, tk, ip, ua)
    \/ \E w \in Workers : CreateBlacklisted(w)
    \/ \E w \in Workers : LogLogout(w)

RaceSpec == RaceInit /\ [][RaceNext]_vars

(* ------------------ a locked-out user who keeps trying ---------------- *)

\* A login by a user who, once a lock is on record, offers a wrong password
\* no more.  Within the bounds of the model a failed login leaves room in
\* the log for a successful one, and no lock is set that would lapse after
\* the clock has stopped.
PatientLogin(username, password, ip_address, user_agent) ==
    /\ Login(username, password, ip_address, user_agent)
    /\ users[username].account_locked_until # None
           => check_password(users[username], password)
    /\ LET r == login(users, username, password, ip_address, user_agent, now,
                      Cardinality(tokens) + 1)
       IN  /\ ~r.result.success => Len(auth_log) + 1 < MaxLog
           /\ r.users[username].account_locked_until # None
                  => Val(r.users[username].account_locked_until) <= MaxTime

\* The user tries the right password.
RightPassword(username) ==
    \E ip \in IPs, ua \in UserAgents :
        PatientLogin(username, StoredPassword[username], ip, ua)

LiveNext ==
    \/ Tick
    \/ \E password \in Passwords, ip \in IPs, ua \in UserAgents :
          PatientLogin("alice", password, ip, ua)

\* Time keeps advancing, and the user keeps trying the right password.
LiveSpec ==
    /\ Init
    /\ [][LiveNext]_vars
    /\ WF_vars(Tick)
    /\ WF_vars(RightPassword("alice"))

(* ------------------- the audit log cannot be written ------------------ *)

\* AuthLog.objects.create raises in login (the database refuses the insert).
\* login has no try block: the exception leaves the use case, nothing is
\* returned, and what the call has saved stays saved.
LogEventFails(w) ==
    LET r == requests[w]
    IN  /\ r.pc = "log"
        /\ r.op = "login"
        /\ requests' = [requests EXCEPT ![w] =
               [r EXCEPT !.pc = "done", !.audit_failed = TRUE,
                         !.result = None]]
        /\ UNCHANGED <<now, users, blacklist, auth_log, tokens, logged_out,
                       last>>

\* AuthLog.objects.create raises in logout: except Exception returns
\* LOGOUT_FAILED; the row created before it stays.
LogLogoutFails(w) ==
    LET r == requests[w]
    IN  /\ r.pc = "log"
        /\ r.op = "logout"
        /\ requests' = [requests EXCEPT ![w] =
               [r EXCEPT !.pc = "done", !.audit_failed = TRUE,
                         !.result = Some(error_response(LOGOUT_FAILED,
                             <<"Logout failed: ", "database error">>))]]
        /\ UNCHANGED <<now, users, blacklist, auth_log, tokens, logged_out,
                       last>>

\* One request at a time, statement by statement, with an audit log that
\* may refuse an insert.
FaultNext ==
    \/ Tick
    \/ \E password \in Passwords, ip \in IPs, ua \in UserAgents :
          BeginLogin("w1", "alice", password, ip, ua)
    \/ GetUser("w1")
    \/ CheckAccount("w1")
    \/ Increment("w1")
    \/ Reset("w1")
    \/ SaveLastLogin("w1")
    \/ LogEvent("w1")
    \/ CheckLockedNow("w1")
    \/ \E user \in Users, tk \in tokens, ip \in IPs, ua \in UserAgents :
          BeginLogout("w1", user, tk, ip, ua)
    \/ CreateBlacklisted("w1")
    \/ LogLogout("w1")
    \/ LogEventFails("w1")
    \/ LogLogoutFails("w1")

FaultSpec == ConcInit /\ [][FaultNext]_vars

(* ============================ the claims ============================== *)

\* The audit rows of the login attempts that named username u, oldest first.
LoginEntries(u) ==
    SelectSeq(auth_log, LAMBDA e :
        e.username_attempted = u
        /\ e.event_type \in {"login_success", "login_failed"})

\* The last call was a login naming u.
LastIsLogin(u) == last.op = "login" /\ last.username = u

\* The row of the user that the last login read.
Before == Val(last.before)

\* A lock is in force on a row at time t.
LockInForce(row, t) ==
    row.account_locked_until # None /\ t < Val(row.account_locked_until)

\* The last five rows of L are wrong-password failures of a streak that
\* began from a clean counter: at the first attempt ever, or right after a
\* successful login.
StreakOfFive(L) ==
    /\ Len(L) >= 5
    /\ \A i \in (Len(L) - 4)..Len(L) : L[i].failure_reason = "Invalid password"
    /\ (Len(L) = 5 \/ L[Len(L) - 5].event_type = "login_success")

AllButLast(L) == SubSeq(L, 1, Len(L) - 1)

\* C1: after five consecutive wrong-password logins that began from a clean
\* counter the user's failed_login_attempts is 5 and account_locked_until is
\* the time of the fifth failure plus 15 minutes; the login that follows
\* while that lock is in force is rejected with ACCOUNT_LOCKED (AUTH-003,
\* HTTP 403) whatever the password, and leaves the row as it was.
C1_FiveFailuresLock ==
    \A u \in Users :
        LET L == LoginEntries(u)
        IN  /\ StreakOfFive(L) =>
                /\ users[u].failed_login_attempts = 5
                /\ users[u].account_locked_until
                       = Some(L[Len(L)].created_at + 15)
            /\ ( /\ LastIsLogin(u)
                 /\ Len(L) >= 6
                 /\ StreakOfFive(AllButLast(L))
                 /\ last.at < L[Len(L) - 1].created_at + 15 ) =>
                /\ ~last.result.success
                /\ last.result.error_code = "AUTH-003"
                /\ login_view_status(last.result) = 403
                /\ users[u] = Before
                /\ users[u].failed_login_attempts = 5

\* C1's case: the sixth login, with the correct password, was rejected.
C1_Witness ==
    \E u \in Users :
        LET L == LoginEntries(u)
        IN  /\ LastIsLogin(u)
            /\ Len(L) >= 6
            /\ StreakOfFive(AllButLast(L))
            /\ last.password = users[u].password
            /\ last.result.error_code = "AUTH-003"

\* The wrong-password failure that set the lock now stored for u: the last
\* login row of u that is not a rejection by that lock.
LockingFailure(L) ==
    LET i == CHOOSE k \in 1..Len(L) :
                 /\ L[k].failure_reason # "Account locked"
                 /\ \A j \in (k + 1)..Len(L) :
                        L[j].failure_reason = "Account locked"
    IN  L[i]

\* C2: a lock expires 15 minutes after the failure that set it;
\* is_account_locked reports true at every time strictly before
\* account_locked_until, and at a time at or after it reports false and
\* saves failed_login_attempts = 0 and account_locked_until = null.  As login
\* observes it: before the expiry login is rejected as locked and the row
\* stays; from the expiry on login gets past the lock check and the row
\* restarts from 0.
C2_LockWindow ==
    \A u \in Users :
        /\ users[u].account_locked_until # None =>
            LET until == Val(users[u].account_locked_until)
                chk == is_account_locked(users[u], now)
                L == LoginEntries(u)
            IN  /\ users[u].failed_login_attempts = 5
                /\ LockingFailure(L).failure_reason = "Invalid password"
                /\ until = LockingFailure(L).created_at + 15
                /\ chk.ret = (now < until)
                /\ now < until => chk.user = users[u]
                /\ now >= until =>
                       /\ chk.user.failed_login_attempts = 0
                       /\ chk.user.account_locked_until = None
        /\ (LastIsLogin(u) /\ Before.account_locked_until # None) =>
            IF last.at < Val(Before.account_locked_until)
            THEN /\ ~last.result.success
                 /\ last.result.error_code = "AUTH-003"
                 /\ users[u] = Before
            ELSE /\ last.result.success
                    \/ last.result.message[1]
                           # "Account is locked. Try again after "
                 /\ users[u].account_locked_until = None
                 /\ users[u].failed_login_attempts
                        = IF Before.is_active
                             /\ last.password # Before.password
                          THEN 1 ELSE 0

\* C2's case: a login at the expiry instant of a lock got past the lock
\* check and the counter was reset.
C2_Witness ==
    \E u \in Users :
        /\ LastIsLogin(u)
        /\ Before.account_locked_until # None
        /\ Before.failed_login_attempts = 5
        /\ last.at >= Val(Before.account_locked_until)
        /\ last.result.success
        /\ users[u].failed_login_attempts = 0
        /\ users[u].account_locked_until = None

\* C3: right after a login that returned success the user's
\* failed_login_attempts is 0 and account_locked_until is null, whatever
\* the counter was before the call.
C3_SuccessResets ==
    \A u \in Users :
        (LastIsLogin(u) /\ last.result.success) =>
            /\ users[u].failed_login_attempts = 0
            /\ users[u].account_locked_until = None

\* C3's case: a successful login after three recorded failures.
C3_Witness ==
    \E u \in Users :
        /\ LastIsLogin(u)
        /\ last.result.success
        /\ Before.failed_login_attempts = 3
        /\ users[u].failed_login_attempts = 0

\* The audit rows of a given event type.
CountEvents(event_type) ==
    Cardinality({i \in 1..Len(auth_log) :
                    auth_log[i].event_type = event_type})

\* C4: login returns success, with an access token and a refresh token, only
\* if the username exists, no lock is in force on the account, the user is
\* active and the password is the stored one; otherwise it returns
\* success = false with an error code and no token, and mints none.
C4_SuccessOnlyIf ==
    /\ Cardinality(tokens) = CountEvents("login_success")
    /\ last.op = "login" =>
        IF last.result.success
        THEN /\ last.username \in Users
             /\ last.before # None
             /\ ~LockInForce(Before, last.at)
             /\ Before.is_active
             /\ last.password = Before.password
             /\ {"access_token", "refresh_token"} \subseteq DOMAIN last.result
             /\ last.result.refresh_token \in tokens
             /\ last.result.refresh_token.user_id = last.username
             /\ last.result.access_token.user_id = last.username
             /\ auth_log[Len(auth_log)].event_type = "login_success"
        ELSE /\ DOMAIN last.result = {"success", "error_code", "message"}
             /\ last.result.error_code \in {"AUTH-001", "AUTH-002", "AUTH-003"}
             /\ auth_log[Len(auth_log)].event_type = "login_failed"

\* C4's case: a login returned success with both tokens.
C4_Witness ==
    /\ last.op = "login"
    /\ last.result.success
    /\ last.result.refresh_token \in tokens
    /\ last.result.access_token.token_type = "access"

\* C5 as stated: once logout(user, T) has returned success, every later
\* refresh_access_token(T) is rejected with TOKEN_REVOKED (AUTH-005).
C5_Original ==
    (last.op = "refresh" /\ last.token \in logged_out) =>
        /\ ~last.result.success
        /\ last.result.error_code = "AUTH-005"

\* C5: once logout(user, T) has returned success no refresh_access_token(T)
\* returns success, and the response is HTTP 401: the error is TOKEN_REVOKED
\* (AUTH-005) while T has not reached its own expiry, and
\* TOKEN_REFRESH_FAILED (AUTH-006) from T's expiry on, when the revocation
\* record has lapsed and is deleted.  Any other unexpired refresh token of
\* the same user that was not itself logged out still yields a new access
\* token for that user.
C5_LogoutRevokes ==
    /\ \A tk \in tokens :
        LET r == refresh_access_token(blacklist, tk, now).result
        IN  IF tk \in logged_out
            THEN /\ ~r.success
                 /\ refresh_view_status(r) = 401
                 /\ r.error_code = IF now < tk.exp THEN "AUTH-005"
                                                   ELSE "AUTH-006"
            ELSE now < tk.exp =>
                 /\ r.success
                 /\ r.access_token.user_id = tk.user_id
                 /\ r.access_token.token_type = "access"
    /\ last.op = "refresh" =>
        IF last.token \in logged_out
        THEN /\ ~last.result.success
             /\ refresh_view_status(last.result) = 401
             /\ last.result.error_code
                    = IF last.at < last.token.exp THEN "AUTH-005"
                                                  ELSE "AUTH-006"
        ELSE last.at < last.token.exp =>
             /\ last.result.success
             /\ last.result.access_token.user_id = last.token.user_id

\* C5's case: after one token of a user was logged out, a refresh with
\* another token of the same user returned a new access token.
C5_Witness ==
    /\ last.op = "refresh"
    /\ last.result.success
    /\ last.token \notin logged_out
    /\ \E T \in logged_out :
           /\ T # last.token
           /\ T.user_id = last.token.user_id
           /\ ~refresh_access_token(blacklist, T, now).result.success

\* C6: refresh_access_token consults the blacklist before it parses the
\* token: when the token has a blacklist row with now < expires_at the result
\* is TOKEN_REVOKED (AUTH-005), never TOKEN_REFRESH_FAILED and never success,
\* even if the token is expired or does not parse; the row stays.
C6_RevocationFirst ==
    (last.op = "refresh" /\ \E r \in last.before : last.at < r.expires_at) =>
        /\ ~last.result.success
        /\ last.result.error_code = "AUTH-005"
        /\ last.result.message = <<"Token has been revoked">>
        /\ RowsOf(blacklist, last.token) = last.before

\* C6's case: a refresh with an expired token whose blacklist row was still
\* in force was answered TOKEN_REVOKED.
C6_Witness ==
    /\ last.op = "refresh"
    /\ \E r \in last.before : last.at < r.expires_at
    /\ last.token.signed
    /\ last.at >= last.token.exp
    /\ ~RefreshToken(last.token, last.at)
    /\ last.result.error_code = "AUTH-005"

\* C7: every call of login, on each of its five paths, appends exactly one
\* audit record to the log and changes no earlier record; the record names
\* the attempted username and is of type login_success with success = true
\* when login returned success, and of type login_failed with
\* success = false otherwise.
C7_OneAuditRecord ==
    [][\A username \in Usernames, password \in Passwords,
          ip \in IPs, ua \in UserAgents :
          Login(username, password, ip, ua) =>
              /\ Len(auth_log') = Len(auth_log) + 1
              /\ SubSeq(auth_log', 1, Len(auth_log)) = auth_log
              /\ LET e == auth_log'[Len(auth_log')]
                 IN  /\ e.username_attempted = username
                     /\ e.success = last'.result.success
                     /\ e.event_type = IF last'.result.success
                                       THEN "login_success"
                                       ELSE "login_failed"]_vars

\* C7's case: three logins on three different paths (a rejected one that
\* named no active account, a wrong password, a success) left three records.
C7_Witness ==
    /\ last.op = "login"
    /\ Len(auth_log) = 3
    /\ auth_log[1].failure_reason \in {"Invalid username", "Account inactive"}
    /\ auth_log[2].failure_reason = "Invalid password"
    /\ auth_log[3].event_type = "login_success"
    /\ last.result.success

\* What login answers, at time t, to a username that matches no user.
UnknownUserResult(password, t) ==
    login(users, CHOOSE n \in Usernames \ Users : TRUE, password,
          CHOOSE ip \in IPs : TRUE, CHOOSE ua \in UserAgents : TRUE, t, 0).result

C9_WrongPassword ==
    \A u \in Users :
        ( /\ LastIsLogin(u)
          /\ Before.is_active
          /\ ~LockInForce(Before, last.at)
          /\ last.password # Before.password ) =>
            LET n == IF Before.account_locked_until = None
                     THEN Before.failed_login_attempts + 1
                     ELSE 1
            IN  /\ n <= 5
                /\ ~last.result.success
                /\ auth_log[Len(auth_log)].failure_reason = "Invalid password"
                /\ n < 5 =>
                    /\ users[u] = [Before EXCEPT
                                      !.failed_login_attempts = n,
                                      !.account_locked_until = None]
                    /\ last.result.error_code = "AUTH-001"
                    /\ last.result.message = <<"Invalid credentials">>
                    /\ login_view_status(last.result) = 401
                /\ n = 5 =>
                    /\ users[u] = [Before EXCEPT
                                      !.failed_login_attempts = 5,
                                      !.account_locked_until
                                          = Some(last.at + 15)]
                    /\ last.result.error_code = "AUTH-003"
                    /\ last.result.message = <<"Too many failed attempts. Account locked for 15 minutes.">>
                    /\ login_view_status(last.result) = 403

\* C9's case: the wrong password that took the counter from 4 to 5 was
\* answered with the "too many attempts" message.
C9_Witness ==
    \E u \in Users :
        /\ LastIsLogin(u)
        /\ Before.is_active
        /\ Before.account_locked_until = None
        /\ Before.failed_login_attempts = 4
        /\ last.password # Before.password
        /\ users[u].failed_login_attempts = 5
        /\ last.result.error_code = "AUTH-003"

\* C10: login with a username that matches no user returns
\* INVALID_CREDENTIALS (AUTH-001) with the message "Invalid credentials",
\* appends one login_failed audit record with a null user, the attempted
\* username and the reason "Invalid username", and changes no user row (and
\* mints no token).
C10_UnknownUsername ==
    [][\A username \in Usernames \ Users, password \in Passwords,
          ip \in IPs, ua \in UserAgents :
          Login(username, password, ip, ua) =>
              /\ users' = users
              /\ tokens' = tokens
              /\ auth_log' = Append(auth_log,
                     [user |-> NoUser, username_attempted |-> username,
                      event_type |-> "login_failed", ip_address |-> ip,
                      user_agent |-> ua, success |-> FALSE,
                      failure_reason |-> "Invalid username",
                      created_at |-> now])
              /\ last'.result = [success |-> FALSE, error_code |-> "AUTH-001",
                                 message |-> <<"Invalid credentials">>]
              /\ login_view_status(last'.result) = 401]_vars

\* C10's case: a login named an unknown username while a user row carried
\* recorded failures, and the record of it has a null user.
C10_Witness ==
    /\ last.op = "login"
    /\ last.username \notin Users
    /\ last.before = None
    /\ last.result.error_code = "AUTH-001"
    /\ auth_log[Len(auth_log)].user = NoUser
    /\ auth_log[Len(auth_log)].failure_reason = "Invalid username"
    /\ \E u \in Users : users[u].failed_login_attempts = 2

\* C11: login for an existing inactive user on whom no lock is in force
\* returns INACTIVE_ACCOUNT (AUTH-002, HTTP 403) whatever the password, also
\* the correct one, returns and mints no token, and appends a login_failed
\* audit record with reason "Account inactive"; the lock is checked before
\* the active flag, so a user that is both locked and inactive gets
\* ACCOUNT_LOCKED (AUTH-003).
C11_InactiveRejected ==
    /\ Cardinality(tokens) = CountEvents("login_success")
    /\ \A u \in Users :
        (LastIsLogin(u) /\ ~Before.is_active) =>
            LET e == auth_log[Len(auth_log)]
            IN  /\ ~last.result.success
                /\ DOMAIN last.result = {"success", "error_code", "message"}
                /\ login_view_status(last.result) = 403
                /\ e.event_type = "login_failed"
                /\ e.user = u
                /\ ~e.success
                /\ ~users[u].is_active
                /\ IF LockInForce(Before, last.at)
                   THEN /\ last.result.error_code = "AUTH-003"
                        /\ e.failure_reason = "Account locked"
                   ELSE /\ last.result.error_code = "AUTH-002"
                        /\ e.failure_reason = "Account inactive"

\* C11's case: a login with the correct password for a user that is both
\* locked and inactive was answered ACCOUNT_LOCKED.
C11_Witness ==
    \E u \in Users :
        /\ LastIsLogin(u)
        /\ ~Before.is_active
        /\ LockInForce(Before, last.at)
        /\ last.password = Before.password
        /\ last.result.error_code = "AUTH-003"

\* C11's other case: a login with the correct password for an inactive user
\* on whom no lock is in force was answered INACTIVE_ACCOUNT.
InactiveCorrectPassword ==
    \E u \in Users :
        /\ LastIsLogin(u)
        /\ ~Before.is_active
        /\ ~LockInForce(Before, last.at)
        /\ last.password = Before.password
        /\ last.result.error_code = "AUTH-002"

\* C12: logout(user, T) with a refresh token T that parses (well formed and
\* unexpired) and has no blacklist row adds exactly one row for T, with
\* reason "logout", user = the caller and expires_at = T's own expiry,
\* appends exactly one "logout" audit record for that user, returns success
\* (HTTP 200), and changes no user row.
C12_LogoutRecords ==
    [][\A user \in Users, tk \in tokens, ip \in IPs, ua \in UserAgents :
          ( /\ Logout(user, tk, ip, ua)
            /\ RefreshToken(tk, now)
            /\ RowsOf(blacklist, tk) = {} ) =>
              /\ blacklist' = blacklist \cup
                     {[token |-> tk, user |-> user, reason |-> "logout",
                       expires_at |-> tk.exp]}
              /\ Cardinality(RowsOf(blacklist', tk)) = 1
              /\ auth_log' = Append(auth_log,
                     [user |-> user, username_attempted |-> user,
                      event_type |-> "logout", ip_address |-> ip,
                      user_agent |-> ua, success |-> TRUE,
                      failure_reason |-> "", created_at |-> now])
              /\ last'.result.success
              /\ last'.result.message = <<"Logged out successfully">>
              /\ logout_view_status(last'.result) = 200
              /\ users' = users]_vars

\* C12's case: a logout with a fresh token succeeded while the blacklist
\* already held the row of another token; the new row carries the token's
\* expiry and the log ends with the logout record.
C12_Witness ==
    /\ last.op = "logout"
    /\ last.result.success
    /\ last.before = {}
    /\ Cardinality(blacklist) = 2
    /\ \E r \in blacklist :
           /\ r.token = last.token
           /\ r.reason = "logout"
           /\ r.user = last.user
           /\ r.expires_at = last.token.exp
    /\ auth_log[Len(auth_log)].event_type = "logout"
    /\ auth_log[Len(auth_log)].user = last.user

\* The token does not parse at time t: it is not signed by this service, is
\* not a refresh token, or has reached its expiry.
Malformed(token, t) ==
    ~token.signed \/ token.token_type # "refresh" \/ t >= token.exp

\* C13: logout with a refresh token that fails parsing (a malformed one or
\* an expired one) returns LOGOUT_FAILED (AUTH-004, HTTP 400) and leaves the
\* blacklist and the audit log unchanged.
C13_MalformedLogout ==
    [][\A user \in Users, tk \in tokens \cup {ForgedToken},
          ip \in IPs, ua \in UserAgents :
          (Logout(user, tk, ip, ua) /\ Malformed(tk, now)) =>
              /\ ~last'.result.success
              /\ last'.result.error_code = "AUTH-004"
              /\ logout_view_status(last'.result) = 400
              /\ blacklist' = blacklist
              /\ auth_log' = auth_log
              /\ users' = users]_vars

\* C13's case: a logout with an expired token that had no blacklist row was
\* refused while the blacklist held other rows, and no row for it was made.
C13_Witness ==
    /\ last.op = "logout"
    /\ last.token.signed
    /\ last.at >= last.token.exp
    /\ last.before = {}
    /\ last.result.error_code = "AUTH-004"
    /\ blacklist # {}
    /\ RowsOf(blacklist, last.token) = {}
    /\ auth_log = << >>

\* C13's other case: a logout with a token no key of this service signed was
\* refused.
ForgedLogoutRefused ==
    /\ last.op = "logout"
    /\ ~last.token.signed
    /\ last.result.error_code = "AUTH-004"

\* C14: is_blacklisted(token) returns true iff a blacklist row for that token
\* exists and now < expires_at; if a row exists with now >= expires_at it
\* deletes that row and returns false; if no row exists it returns false and
\* changes nothing; rows of other tokens are never touched.  The same is
\* seen after refresh_access_token, which calls it first.
C14_IsBlacklisted ==
    /\ \A tk \in tokens \cup {ForgedToken} :
        LET rows == {row \in blacklist : row.token = tk}
            r == is_blacklisted(blacklist, tk, now)
        IN  /\ r.ret = (\E row \in rows : now < row.expires_at)
            /\ rows = {} => r.blacklist = blacklist
            /\ (\E row \in rows : now < row.expires_at) =>
                   r.blacklist = blacklist
            /\ (\E row \in rows : now >= row.expires_at) =>
                   r.blacklist = blacklist \ rows
            /\ \A other \in blacklist :
                   other.token # tk => other \in r.blacklist
            /\ r.blacklist \subseteq blacklist
    /\ last.op = "refresh" =>
        LET rows == {row \in blacklist : row.token = last.token}
        IN  IF \E row \in last.before : last.at < row.expires_at
            THEN /\ rows = last.before
                 /\ last.result.error_code = "AUTH-005"
            ELSE /\ rows = {}
                 /\ (last.result.success
                     \/ last.result.error_code # "AUTH-005")

\* C14's case: a refresh found a lapsed row for its token and deleted it,
\* and the row of another token is still in the blacklist.
C14_Witness ==
    /\ last.op = "refresh"
    /\ \E row \in last.before : last.at >= row.expires_at
    /\ {row \in blacklist : row.token = last.token} = {}
    /\ \E other \in blacklist : other.token # last.token
    /\ ~last.result.success
    /\ last.result.error_code = "AUTH-006"

\* C15: for a token without a blacklist row in force, refresh_access_token
\* returns success (HTTP 200) with a new access token that has the subject,
\* role and username of the refresh token when the token parses (signed,
\* of type refresh, unexpired), and returns TOKEN_REFRESH_FAILED (AUTH-006)
\* with no token when it does not parse; it never returns success for a
\* token that fails parsing.
C15_RefreshParses ==
    /\ (last.op = "refresh"
        /\ ~(\E row \in last.before : last.at < row.expires_at)) =>
        IF Malformed(last.token, last.at)
        THEN /\ ~last.result.success
             /\ last.result.error_code = "AUTH-006"
             /\ DOMAIN last.result = {"success", "error_code", "message"}
        ELSE /\ last.result.success
             /\ refresh_view_status(last.result) = 200
             /\ DOMAIN last.result = {"success", "access_token"}
             /\ last.result.access_token.token_type = "access"
             /\ last.result.access_token.user_id = last.token.user_id
             /\ last.result.access_token.role = last.token.role
             /\ last.result.access_token.username = last.token.username
             /\ last.result.access_token.exp = last.at + 60
    /\ (last.op = "refresh" /\ Malformed(last.token, last.at)) =>
        ~last.result.success

\* C15's case: a refresh with a token that parses and has no row, while the
\* blacklist holds the row of another token, returned an access token with
\* the refresh token's claims.
C15_Witness ==
    /\ last.op = "refresh"
    /\ last.before = {}
    /\ blacklist # {}
    /\ ~Malformed(last.token, last.at)
    /\ last.result.success
    /\ last.result.access_token.role = "manager"
    /\ last.result.access_token.user_id = last.token.user_id

\* C15's other case: a refresh with an unsigned token that has no row in
\* force was answered TOKEN_REFRESH_FAILED.
ForgedRefreshFailed ==
    /\ last.op = "refresh"
    /\ ~last.token.signed
    /\ ~(\E row \in last.before : last.at < row.expires_at)
    /\ last.result.error_code = "AUTH-006"

\* C16: in every state reachable through login, logout and refresh, and for
\* every user, account_locked_until is non-null only if
\* failed_login_attempts >= 5.
C16_LockImpliesFive ==
    \A u \in Users :
        users[u].account_locked_until # None =>
            users[u].failed_login_attempts >= 5

\* C16's case: a user row carries a lock, set by logins that followed a
\* successful one, and a refresh has run since.
C16_Witness ==
    \E u \in Users :
        /\ users[u].account_locked_until # None
        /\ users[u].failed_login_attempts >= 5
        /\ tokens # {}
        /\ last.op = "refresh"

\* C17: the audit log is append-only: no login, logout or refresh (and no
\* passing of time) modifies or deletes an audit record, so every record
\* present before a step is present, unchanged and at the same place after
\* it.
C17_AppendOnly ==
    [][/\ Len(auth_log') >= Len(auth_log)
       /\ \A i \in 1..Len(auth_log) : auth_log'[i] = auth_log[i]]_vars

\* C17's case: a login, a logout and a refresh have run and the log still
\* begins with the record of the first login, followed by later records.
C17_Witness ==
    /\ last.op = "refresh"
    /\ logged_out # {}
    /\ Len(auth_log) >= 3
    /\ auth_log[1].event_type = "login_failed"
    /\ auth_log[1].created_at = 0
    /\ \E i \in 2..Len(auth_log) : auth_log[i].event_type = "logout"
    /\ auth_log[Len(auth_log)].created_at > 0

\* C18: retrieving the audit trail returns every record once, newest first
\* by creation timestamp: of any two records, the one with the later
\* created_at is returned before the one with the earlier created_at.
C18_NewestFirst ==
    last.op = "all" =>
        LET n == Len(auth_log)
            place == last.order
            trail == last.result
        IN  /\ Len(trail) = n
            /\ {place[i] : i \in 1..n} = 1..n
            /\ \A i \in 1..n : trail[i] = auth_log[place[i]]
            /\ \A i, j \in 1..n :
                   trail[i].created_at > trail[j].created_at => i < j
            /\ n > 0 =>
                   \A k \in 1..n : trail[1].created_at >= auth_log[k].created_at

\* C18's case: three records created at three different times were
\* returned in the reverse of their order of creation.
C18_Witness ==
    /\ last.op = "all"
    /\ Len(auth_log) = 3
    /\ auth_log[1].created_at < auth_log[2].created_at
    /\ auth_log[2].created_at < auth_log[3].created_at
    /\ last.result = <<auth_log[3], auth_log[2], auth_log[1]>>

\* Two records with the same created_at were returned in their order of
\* creation: the order among equal timestamps is left open.
TieInCreationOrder ==
    /\ last.op = "all"
    /\ Len(auth_log) = 2
    /\ auth_log[1] # auth_log[2]
    /\ auth_log[1].created_at = auth_log[2].created_at
    /\ last.result = auth_log

\* The last refresh request carried a token with a blacklist row in force.
RevokedAtRequest ==
    \E row \in last.before : last.at < row.expires_at

MissingTokenRejected ==
    /\ last.op = "refresh_view"
    /\ last.data.refresh_token = "missing"
    /\ last.status = 400

RevokedTokenRejected ==
    /\ last.op = "refresh_view"
    /\ last.data.refresh_token = "string"
    /\ RevokedAtRequest
    /\ last.status = 401

\* The username of the body is 3-30 characters of letters, digits and
\* underscore, and the password is 8-128 characters.
WellFormedLogin(data) ==
    /\ "username" \in DOMAIN data
    /\ Len(data.username) \in 3..30
    /\ \A i \in 1..Len(data.username) : data.username[i] \in WordChars
    /\ "password" \in DOMAIN data
    /\ Len(data.password) \in 8..128

\* C20 as stated: a login request whose username is not 3-30 characters of
\* letters, digits and underscore, or whose password is not 8-128
\* characters, is rejected with HTTP 400 and a field-keyed error map before
\* any business logic runs: no audit record is appended and no user row
\* changes.
C20_Original ==
    [][\A data \in LoginRequests :
          (LoginView(data) /\ ~WellFormedLogin(data)) =>
              /\ last'.op = "login_view"
              /\ last'.status = 400
              /\ DOMAIN last'.body \subseteq {"username", "password"}
              /\ auth_log' = auth_log
              /\ users' = users]_vars

\* The role of an identity, "" for one without a role.
RoleOfRequester(user) == IF hasattr(user, "role") THEN user.role ELSE ""

\* The object's recorded owner is the requester.
OwnedBy(obj, user) ==
    /\ user.is_authenticated
    /\ \/ hasattr(obj, "uploaded_by") /\ obj.uploaded_by = user.username
       \/ hasattr(obj, "user") /\ obj.user = user.username

\* C21: the outcome of a permission check is determined by whether the
\* identity is authenticated, its role, and whether it owns the object:
\* admin-only passes exactly for an authenticated admin, manager-or-admin
\* exactly for authenticated admins and managers, any-authenticated-role
\* exactly for authenticated admins, managers and viewers, so an
\* unauthenticated identity fails all three; the object-level check passes for
\* an admin on every object and for anybody else exactly when the object's
\* recorded owner is the requester.
C21_PermissionTable ==
    last.op = "permission" =>
        LET auth == last.user.is_authenticated
            role == RoleOfRequester(last.user)
        IN  /\ last.class = "IsAdminUser" =>
                (last.has_permission <=> auth /\ role = "admin")
            /\ last.class = "IsManagerOrAdmin" =>
                (last.has_permission <=> auth /\ role \in {"admin", "manager"})
            /\ last.class = "IsViewerOrAbove" =>
                (last.has_permission <=>
                    auth /\ role \in {"admin", "manager", "viewer"})
            /\ (~auth /\ last.class # "IsOwnerOrAdmin") => ~last.has_permission
            /\ last.class = "IsOwnerOrAdmin" =>
                (last.has_object_permission <=>
                    role = "admin" \/ OwnedBy(last.obj, last.user))

C21_Witness ==
    /\ last.op = "permission"
    /\ last.class = "IsOwnerOrAdmin"
    /\ RoleOfRequester(last.user) = "manager"
    /\ hasattr(last.obj, "uploaded_by")
    /\ ~OwnedBy(last.obj, last.user)
    /\ ~last.has_object_permission

\* C22: whatever the interleaving of concurrent logins on an account, each
\* working on its own copy of the row and saving counter and lock together,
\* the stored counter of every user is between 0 and 5, and it is 5 exactly
\* when a lock time is stored.
C22_CounterRange ==
    \A u \in DOMAIN users :
        /\ users[u].failed_login_attempts \in 0..LOCK_THRESHOLD
        /\ users[u].failed_login_attempts = LOCK_THRESHOLD
               <=> users[u].account_locked_until # None

\* Two logins that fetched the same row with four failures have both saved
\* their fifth.
C22_Witness ==
    /\ requests["w1"].pc = "done" /\ requests["w2"].pc = "done"
    /\ requests["w1"].read = requests["w2"].read
    /\ requests["w1"].read # None
    /\ Val(requests["w1"].read).failed_login_attempts = LOCK_THRESHOLD - 1
    /\ requests["w1"].wrote # None /\ requests["w2"].wrote # None
    /\ users["alice"].failed_login_attempts = LOCK_THRESHOLD

\* The request of worker w is a wrong-password attempt that has saved its
\* increment, appended its audit record and returned.
FailedAttemptDone(w) ==
    /\ requests[w].pc = "done"
    /\ requests[w].failure_reason = "Invalid password"
    /\ requests[w].wrote # None

\* The wrong-password records in the log for u.
WrongPasswords(u) ==
    Cardinality({i \in 1..Len(auth_log) :
        /\ auth_log[i].username_attempted = u
        /\ auth_log[i].failure_reason = "Invalid password"})

\* C23: the counter update is not serialised per user. Two concurrent
\* wrong-password attempts on an unlocked account that fetched the same row,
\* with counter n < 4, each write n+1: once both have completed the stored
\* counter is n+1, not n+2, so an update is lost and the lock comes later than
\* the fifth failure.
C23_LostUpdate ==
    \A w1, w2 \in Workers :
        ( /\ w1 # w2
          /\ FailedAttemptDone(w1) /\ FailedAttemptDone(w2)
          /\ requests[w1].read = requests[w2].read
          /\ Val(requests[w1].read).failed_login_attempts
                 < LOCK_THRESHOLD - 1 )
        => /\ Val(requests[w1].wrote)[1] =
                  Val(requests[w1].read).failed_login_attempts + 1
           /\ requests[w2].wrote = requests[w1].wrote
           /\ SecurityFields(users[requests[w1].username]) =
                  Val(requests[w1].wrote)

\* Five wrong passwords are on record for alice, two of them from attempts
\* that fetched the same row, and the account is not locked.
C23_Witness ==
    /\ FailedAttemptDone("w1") /\ FailedAttemptDone("w2")
    /\ requests["w1"].read = requests["w2"].read
    /\ WrongPasswords("alice") >= LOCK_THRESHOLD
    /\ users["alice"].failed_login_attempts < LOCK_THRESHOLD
    /\ users["alice"].account_locked_until = None
    /\ \A i \in 1..Len(auth_log) : ~auth_log[i].success

\* C29: within one login attempt the audit record comes after the counter
\* write: whenever the audit record of a wrong-password or successful attempt
\* has been appended, that attempt has already saved its increment or reset,
\* and at the moment of the append the stored counter and lock are the ones it
\* saved unless another request has been served meanwhile.
C29_AuditAfterCounter ==
    [][\A w \in Workers :
        LET r == requests'[w]
            audited == /\ r.pc \in {"locked_now", "done"}
                       /\ r.op = "login"
                       /\ r.failure_reason \in {"Invalid password", ""}
        IN  audited =>
              /\ r.wrote # None
              /\ r.success => Val(r.wrote) = <<0, None>>
              /\ ~r.success =>
                    /\ Val(r.wrote)[1] \in 1..LOCK_THRESHOLD
                    /\ Val(r.wrote)[1] = LOCK_THRESHOLD
                           <=> Val(r.wrote)[2] # None
              /\ ( /\ requests[w].pc = "log"
                   /\ \A o \in Workers \ {w} : requests[o].served = 0 )
                    => SecurityFields(users'[r.username]) = Val(r.wrote)
      ]_vars

C29_Witness ==
    /\ requests["w1"].pc = "locked_now"
    /\ requests["w2"].pc = "increment"
    /\ Len(auth_log) > 0
    /\ auth_log[Len(auth_log)].failure_reason = "Invalid password"

\* The request of worker w is a refresh of token that has returned success.
RefreshSucceeded(w, token) ==
    /\ requests[w].pc = "done"
    /\ requests[w].op = "refresh"
    /\ requests[w].token = token
    /\ Val(requests[w].result).success

\* C24: in refresh_access_token the revocation check and the token parse
\* are separate steps. A refresh that has passed the check returns success
\* with a new access token exactly when the token parses, whatever has been
\* written to the blacklist since the check, so a logout of the token that
\* completes between the two does not stop it.
C24_CheckThenParse ==
    [][\A w \in Workers :
        (requests[w].pc = "parse" /\ requests'[w].pc = "done")
        => /\ Val(requests'[w].result).success
                  <=> RefreshToken(requests[w].token, now)
           /\ Val(requests'[w].result).success
                  => Val(requests'[w].result).access_token
                         = AccessTokenOf(requests[w].token, now)
           /\ blacklist' = blacklist
      ]_vars

\* A refresh of a token has just returned success although a logout of that
\* token has completed and its row is in force.
C24_Witness ==
    \E tk \in tokens :
        /\ RefreshSucceeded("w1", tk)
        /\ requests["w2"].pc = "done"
        /\ requests["w2"].op = "logout"
        /\ requests["w2"].token = tk
        /\ Val(requests["w2"].result).success
        /\ tk \in logged_out
        /\ \E row \in requests["w1"].rows :
               row.reason = "logout" /\ now < row.expires_at

\* The result of a login turned away at the lock check.
RejectedAtLockCheck(result) ==
    /\ ~result.success
    /\ result.error_code = ACCOUNT_LOCKED
    /\ result.message[1] = "Account is locked. Try again after "

\* C25: a login rejected at the lock check, the account being locked
\* already, leaves failed_login_attempts and account_locked_until as they
\* were (no user row changes at all), so attempts during a lock neither count
\* nor extend it; a login rejected as INACTIVE_ACCOUNT or for an unknown
\* username increments no failure counter, whatever the password.
C25_RejectionsDoNotCount ==
    [][\A username \in Usernames, password \in Passwords,
          ip \in IPs, ua \in UserAgents :
          Login(username, password, ip, ua) =>
              /\ RejectedAtLockCheck(last'.result) =>
                    /\ LockInForce(users[username], now)
                    /\ users' = users
              /\ (username \in Users /\ LockInForce(users[username], now)) =>
                    RejectedAtLockCheck(last'.result)
              /\ (~last'.result.success
                     /\ last'.result.error_code = INACTIVE_ACCOUNT) =>
                    \A u \in Users :
                        users'[u].failed_login_attempts
                            <= users[u].failed_login_attempts
              /\ username \notin Users => users' = users]_vars

\* A wrong password was offered to a locked account.
C25_Witness ==
    /\ last.op = "login"
    /\ last.username \in Users
    /\ last.password # StoredPassword[last.username]
    /\ RejectedAtLockCheck(last.result)
    /\ Before.failed_login_attempts = LOCK_THRESHOLD
    /\ users[last.username] = Before

\* No token has two rows in the blacklist.
TokenUnique(bl) == \A r1, r2 \in bl : r1.token = r2.token => r1 = r2

\* C26: the blacklist holds at most one row per token in every reachable
\* state; a logout with a token that already has a row returns LOGOUT_FAILED,
\* creates no second row, leaves the existing row as it is and appends no
\* audit record.
C26_OneRowPerToken ==
    /\ []TokenUnique(blacklist)
    /\ [][\A user \in Users, tk \in tokens \cup {ForgedToken},
             ip \in IPs, ua \in UserAgents :
             (Logout(user, tk, ip, ua) /\ RowsOf(blacklist, tk) # {}) =>
                 /\ ~last'.result.success
                 /\ last'.result.error_code = LOGOUT_FAILED
                 /\ blacklist' = blacklist
                 /\ auth_log' = auth_log]_vars

\* A logout presented a token that parses and already has a row, and was
\* refused on the unique constraint.
C26_Witness ==
    /\ last.op = "logout"
    /\ last.before # {}
    /\ RefreshToken(last.token, last.at)
    /\ last.result.error_code = LOGOUT_FAILED
    /\ last.result.message[1] = "Logout failed: "
    /\ RowsOf(blacklist, last.token) = last.before
    /\ auth_log = <<>>

\* C27: refresh_access_token does not touch users or the audit log: it
\* changes no field of any user and appends no audit record, and the only
\* thing it may change in the blacklist is to delete a lapsed row of the
\* presented token; so a token that parses and has no row in force is
\* refreshed successfully whether or not its user is locked or inactive.
C27_RefreshFrame ==
    [][\A tk \in tokens :
          Refresh(tk) =>
              /\ users' = users
              /\ auth_log' = auth_log
              /\ tokens' = tokens
              /\ blacklist' \subseteq blacklist
              /\ \A row \in blacklist \ blacklist' :
                     row.token = tk /\ now >= row.expires_at
              /\ ( /\ RefreshToken(tk, now)
                   /\ \A row \in RowsOf(blacklist, tk) :
                          now >= row.expires_at )
                    => last'.result.success]_vars

\* A refresh succeeded for a token whose user was locked out at that
\* moment; the account is deactivated as well.
C27_Witness ==
    /\ last.op = "refresh"
    /\ last.result.success
    /\ LockInForce(users[last.token.user_id], last.at)
    /\ ~users[last.token.user_id].is_active
    /\ now = last.at

\* The lock on a row has lapsed at time t but is still on record.
LockLapsed(row, t) ==
    row.account_locked_until # None /\ t >= Val(row.account_locked_until)

\* C28: no lock is permanent. For an active user whose account is locked,
\* if time keeps advancing and no further wrong password is offered, a login
\* with the correct password eventually succeeds; at any time from
\* account_locked_until on the correct password is accepted, and a wrong
\* one is then the first of a new count: failed_login_attempts = 1 and
\* INVALID_CREDENTIALS.
C28_LockLapses ==
    /\ (users["alice"].is_active /\ LockInForce(users["alice"], now))
           ~> ( /\ LastIsLogin("alice")
                /\ last.result.success
                /\ users["alice"].account_locked_until = None
                /\ users["alice"].failed_login_attempts = 0 )
    /\ [](\A password \in Passwords :
            (users["alice"].is_active /\ LockLapsed(users["alice"], now)) =>
                LET r == login(users, "alice", password, "192.168.1.1",
                               "Test", now, Cardinality(tokens) + 1)
                IN  IF check_password(users["alice"], password)
                    THEN r.result.success
                    ELSE /\ r.users["alice"].failed_login_attempts = 1
                         /\ r.users["alice"].account_locked_until = None
                         /\ r.result = error_response(INVALID_CREDENTIALS,
                                           <<"Invalid credentials">>))

\* The correct password was accepted once the lock of five failures had
\* lapsed.
C28_Witness ==
    /\ LastIsLogin("alice")
    /\ last.result.success
    /\ LockLapsed(Before, last.at)
    /\ Before.failed_login_attempts = LOCK_THRESHOLD
    /\ users["alice"].failed_login_attempts = 0

\* C30: if appending the audit record fails during login or logout, the
\* operation is aborted: it does not return success, and nothing the attempt
\* has stored (a counter change, a blacklist row) remains without its audit
\* record.
C30_Original ==
    \A w \in Workers :
        LET r == requests[w]
        IN  (r.pc = "done" /\ r.audit_failed) =>
              /\ r.result # None => ~Val(r.result).success
              /\ (r.op = "login" /\ r.read # None) =>
                     SecurityFields(users[r.username]) =
                         SecurityFields(Val(r.read))
              /\ r.op = "logout" => RowsOf(blacklist, r.token) = {}

====
